---- MODULE Spec2Model ----
(***************************************************************************)
(* LED grid controller firmware (ESP32-S3, framed UART variant).           *)
(*                                                                         *)
(* The model follows src/unnamed/part_003 lines 1-494: the configuration   *)
(* and render buffer globals, logical_to_physical, process_command and the *)
(* packet framing of loop().  Three specifications share the variables:    *)
(*   Spec      - the dispatcher driven by validated command buffers;       *)
(*   MapSpec   - the pure address mapper under every legal configuration;  *)
(*   FrameSpec - the serial byte stream, loop() framing and the dispatcher.*)
(* The SPI slave variant of the firmware (part_003 lines 496-1008) keeps   *)
(* its globals in the record `spi`; SpiSpec drives its dispatcher with one *)
(* command buffer per bus transaction; PairSpec hands each command buffer  *)
(* to both dispatchers.  The RP2040 variant (src/src/main.cpp) polls the   *)
(* SPI peripheral; PicoSpec interleaves its loop() with the bus master.    *)
(* LiveSpec is the framing with single host bytes and a loop() that keeps  *)
(* running; StatsSpec is loop() with its clock and statistics reporter.    *)
(*                                                                         *)
(* C arrays are 0-based; a command buffer is a TLA+ sequence, so data[i]   *)
(* of the source is B(data, i) == data[i + 1] here.                        *)
(* The 32-bit statistics counters stay far below 2^32 within the bounds,   *)
(* so their wrap-around is not modelled; 8- and 16-bit values wrap, and so *)
(* does the millisecond clock of StatsSpec (ClockBits wide).               *)
(***************************************************************************)
EXTENDS Integers, Sequences, FiniteSets, TLC

\* ------------------------------------------------------------------ sizes
\* part_003:7
MAX_STRIPS == 8
\* part_003:8 is 500; scaled down so that the render buffer stays small.
MAX_LEDS_PER_STRIP == 3
\* part_003:9
MAX_TOTAL_LEDS == MAX_STRIPS * MAX_LEDS_PER_STRIP
\* part_003:11
DEFAULT_STRIPS == MAX_STRIPS
\* part_003:12 is 140: a default strictly shorter than the maximum.
DEFAULT_LEDS_PER_STRIP == MAX_LEDS_PER_STRIP - 1

\* ---------------------------------------------------------------- opcodes
CMD_SET_PIXEL == 1
CMD_SET_BRIGHTNESS == 2
CMD_SHOW == 3
CMD_CLEAR == 4
CMD_SET_RANGE == 5
CMD_SET_ALL == 6
CMD_CONFIG == 7
CMD_ECHO == 254
CMD_PING == 255

PACKET_START == 170
PACKET_END == 85
\* part_003:48
MAX_PACKET_SIZE == 1 + (MAX_TOTAL_LEDS * 3)

RESP_OK == 0
RESP_ERROR == 1
RESP_STATUS == 2

\* ------------------------------------------------------------ model bounds
\* Commands dispatched in one run of Spec.
MaxPackets == 3
\* What the host puts on the serial line in one run of FrameSpec.
MaxStream == 6
\* Width of the millisecond clock in StatsSpec (32 in the hardware).
ClockBits == 3
\* Bus transactions the master starts in one run of PicoSpec.
MaxTransactions == 2
\* Entries of the TX and of the RX FIFO of the RP2040 SPI peripheral (8 in
\* the hardware), scaled down.
FifoDepth == 2

\* ------------------------------------------------------------- arithmetic
U8(x) == x % 256
U16(x) == x % 65536
B(data, i) == data[i + 1]
\* (static_cast<uint16_t>(data[i]) << 8) | data[i + 1]
BE16(data, i) == U16(B(data, i) * 256) + B(data, i + 1)

Black == <<0, 0, 0>>
CRGB(r, g, b) == <<r, g, b>>
Phys == 0 .. (MAX_TOTAL_LEDS - 1)

VARIABLES
    \* configuration and render buffer (part_003:26-30)
    leds, active_strips, leds_per_strip, total_leds, global_brightness,
    \* statistics (part_003:59-71)
    packets_received, frames_rendered, packet_errors,
    config_commands_received, set_all_commands_received,
    total_bytes_received, debug_logging,
    \* hardware: the status LED pin, the pixels last latched by FastLED.show()
    \* and the number of show() calls made by the latest dispatch
    status_led, shown, show_calls,
    \* response packets written to Serial by the latest dispatch
    serial_tx,
    \* framing: Serial receive queue, the locals <<start, len_low, len_high>>
    \* of loop(), uart_buffer[0 .. payload_len-1], payload_len, the position
    \* of loop() and the outcome of its latest iteration
    serial_rx, header, uart_buffer, payload_len, pc, framing,
    \* how much the host has put on the line: a single byte counts 1, a
    \* whole transmission counts 2 (FrameSpec)
    sent,
    \* history: how many bytes at the head of the receive queue belong to a
    \* packet that loop() gave up on timeout (FrameSpec)
    stale,
    \* millis() - timeout_start inside the wait loop of loop() (FrameSpec)
    waited,
    \* argument and result of the latest logical_to_physical call (MapSpec)
    map_logical, map_physical,
    \* SPI slave variant: its globals, and the bytes of the latest
    \* transaction in spi_rx_buffer[0 .. bytes-1] (SpiSpec)
    spi, spi_rx_buffer,
    \* RP2040 polled SPI slave variant (src/src/main.cpp): the globals and
    \* the position of loop() in `pico`, the SPI peripheral and the bus
    \* master in `bus` (PicoSpec)
    pico, bus,
    \* clock and statistics reporter of loop() (StatsSpec)
    stats

dvars == <<leds, active_strips, leds_per_strip, total_leds, global_brightness,
           packets_received, frames_rendered, packet_errors,
           config_commands_received, set_all_commands_received,
           total_bytes_received, debug_logging, status_led, shown, show_calls,
           serial_tx>>
fvars == <<serial_rx, header, uart_buffer, payload_len, pc, framing, sent,
           stale, waited>>
mvars == <<map_logical, map_physical>>
svars == <<spi, spi_rx_buffer>>
pvars == <<pico, bus>>
ovars == <<pvars, stats>>
vars == <<dvars, fvars, mvars, svars, ovars>>


\* ------------------------------------------------------- address mapper
\* variants of the mapper with a plausible slip: the stride of the packed
\* logical layout, and a clamp that keeps the computed offset
logical_to_physical_packed(logical) ==
    LET strip == logical \div leds_per_strip
        offset == logical % leds_per_strip
    IN  IF strip >= active_strips
        THEN U16((active_strips - 1) * MAX_LEDS_PER_STRIP + (leds_per_strip - 1))
        ELSE U16(strip * leds_per_strip + offset)

logical_to_physical_keepoffset(logical) ==
    LET strip == logical \div leds_per_strip
        offset == logical % leds_per_strip
    IN  IF strip >= active_strips
        THEN U16((active_strips - 1) * MAX_LEDS_PER_STRIP + offset)
        ELSE U16(strip * MAX_LEDS_PER_STRIP + offset)

\* inline uint16_t logical_to_physical(uint16_t logical)
logical_to_physical(logical) ==
    LET strip == logical \div leds_per_strip
        offset == logical % leds_per_strip
    IN  IF strip >= active_strips
        THEN U16((active_strips - 1) * MAX_LEDS_PER_STRIP + (leds_per_strip - 1))
        ELSE U16(strip * MAX_LEDS_PER_STRIP + offset)

\* ------------------------------------------------------------ responses
\* send_response(code, message): one framed packet on the return channel.
\* CMD_ECHO writes its packet inline and carries the received bytes instead
\* of a text message.
send_response(response_code, message) ==
    [code |-> response_code, msg |-> message, echo |-> <<>>]
\* echo of the bytes after the opcode only
echo_response_payload(data) ==
    [code |-> RESP_OK, msg |-> "", echo |-> Tail(data)]

echo_response(data) ==
    [code |-> RESP_OK, msg |-> "", echo |-> data]

\* ------------------------------------------------- render buffer loops
\* for (strip < active_strips) for (offset < MAX_LEDS_PER_STRIP) = Black
ClearActiveStrips(buf) ==
    [p \in Phys |->
        IF \E strip \in 0 .. (active_strips - 1) :
              \E offset \in 0 .. (MAX_LEDS_PER_STRIP - 1) :
                  p = strip * MAX_LEDS_PER_STRIP + offset
        THEN Black ELSE buf[p]]

\* for (strip < active_strips) for (offset = leds_per_strip ..) = Black
ClearUnused(buf) ==
    [p \in Phys |->
        IF \E strip \in 0 .. (active_strips - 1) :
              \E offset \in leds_per_strip .. (MAX_LEDS_PER_STRIP - 1) :
                  p = strip * MAX_LEDS_PER_STRIP + offset
        THEN Black ELSE buf[p]]

\* a CONFIG that forgets to clear
ClearAll_none(buf) == buf
\* a clear loop bounded by MAX_LEDS_PER_STRIP instead of MAX_TOTAL_LEDS
ClearAll_firststrip(buf) ==
    [p \in Phys |-> IF p < MAX_LEDS_PER_STRIP THEN Black ELSE buf[p]]

\* for (i < MAX_TOTAL_LEDS) leds[i] = Black
ClearAll(buf) == [p \in Phys |-> Black]

\* a copy loop that forgets the opcode byte in front of the pixel data
RECURSIVE SetAllLoop_noopcode(_, _, _)
SetAllLoop_noopcode(buf, data, logical) ==
    IF logical >= total_leds THEN buf
    ELSE LET base == logical * 3
         IN  SetAllLoop_noopcode(
                 [buf EXCEPT ![logical_to_physical(logical)] =
                     CRGB(B(data, base), B(data, base + 1), B(data, base + 2))],
                 data, logical + 1)

\* CMD_SET_ALL copy loop, from `logical` up to total_leds - 1
RECURSIVE SetAllLoop(_, _, _)
SetAllLoop(buf, data, logical) ==
    IF logical >= total_leds THEN buf
    ELSE LET base == 1 + logical * 3
         IN  SetAllLoop(
                 [buf EXCEPT ![logical_to_physical(logical)] =
                     CRGB(B(data, base), B(data, base + 1), B(data, base + 2))],
                 data, logical + 1)

\* a copy loop whose triples start one byte early
RECURSIVE SetRangeLoop_early(_, _, _, _, _)
SetRangeLoop_early(buf, data, start, count, i) ==
    IF i >= count THEN buf
    ELSE LET logical == U16(start + i)
             base == 3 + i * 3
         IN  IF logical >= total_leds THEN buf
             ELSE SetRangeLoop_early(
                     [buf EXCEPT ![logical_to_physical(logical)] =
                         CRGB(B(data, base), B(data, base + 1), B(data, base + 2))],
                     data, start, count, i + 1)

\* CMD_SET_RANGE copy loop, i from `i` up to count - 1
RECURSIVE SetRangeLoop(_, _, _, _, _)
SetRangeLoop(buf, data, start, count, i) ==
    IF i >= count THEN buf
    ELSE LET logical == U16(start + i)
             base == 4 + i * 3
         IN  IF logical >= total_leds THEN buf
             ELSE SetRangeLoop(
                     [buf EXCEPT ![logical_to_physical(logical)] =
                         CRGB(B(data, base), B(data, base + 1), B(data, base + 2))],
                     data, start, count, i + 1)

\* ------------------------------------------------------ guard conditions
\* guards with a plausible slip
SetPixelInRange_always(pixel) == TRUE
ConfigInvalidStrips_nozero(new_strips) == new_strips > MAX_STRIPS
ConfigInvalidLength_nozero(new_len) == new_len > MAX_LEDS_PER_STRIP
ConfigChanged_stripsonly(new_strips, new_len) == active_strips # new_strips

\* if (pixel < total_leds)
SetPixelInRange(pixel) == pixel < total_leds
\* if (length < expected), expected = 1 + total_leds * 3
SetAllTooShort(length) == length < 1 + total_leds * 3
\* if (length < 4)
ConfigTooShort(length) == length < 4
\* if (new_strips == 0 || new_strips > MAX_STRIPS)
ConfigInvalidStrips(new_strips) == new_strips = 0 \/ new_strips > MAX_STRIPS
\* if (new_len == 0 || new_len > MAX_LEDS_PER_STRIP)
ConfigInvalidLength(new_len) == new_len = 0 \/ new_len > MAX_LEDS_PER_STRIP
\* bool config_changed
ConfigChanged(new_strips, new_len) ==
    (active_strips # new_strips) \/ (leds_per_strip # new_len)

\* ------------------------------------------------------------ dispatcher
\* Each handler is one case of the switch in process_command.  serial_tx and
\* show_calls describe what this dispatch emitted and are reset by it.

cfg == <<active_strips, leds_per_strip, total_leds>>
counts == <<frames_rendered, packet_errors, config_commands_received,
            set_all_commands_received>>

Handle_ECHO(data) ==
    /\ serial_tx' = <<echo_response(data)>>
    /\ show_calls' = 0
    /\ UNCHANGED <<leds, cfg, global_brightness, counts, debug_logging,
                   status_led, shown>>

\* PING that switches the status LED on
Handle_PING_on(data) ==
    /\ status_led' = TRUE
    /\ serial_tx' = <<send_response(RESP_OK, "PONG")>>
    /\ show_calls' = 0
    /\ UNCHANGED <<leds, cfg, global_brightness, counts, debug_logging, shown>>

Handle_PING(data) ==
    /\ status_led' = ~status_led
    /\ serial_tx' = <<send_response(RESP_OK, "PONG")>>
    /\ show_calls' = 0
    /\ UNCHANGED <<leds, cfg, global_brightness, counts, debug_logging, shown>>

Handle_SET_PIXEL(data) ==
    /\ leds' = IF Len(data) < 6 THEN leds
               ELSE LET pixel == BE16(data, 1)
                    IN  IF SetPixelInRange(pixel)
                        THEN [leds EXCEPT ![logical_to_physical(pixel)] =
                                 CRGB(B(data, 3), B(data, 4), B(data, 5))]
                        ELSE leds
    /\ serial_tx' = <<>>
    /\ show_calls' = 0
    /\ UNCHANGED <<cfg, global_brightness, counts, debug_logging, status_led,
                   shown>>

Handle_SET_BRIGHTNESS(data) ==
    /\ global_brightness' = IF Len(data) < 2 THEN global_brightness
                            ELSE B(data, 1)
    /\ serial_tx' = <<>>
    /\ show_calls' = 0
    /\ UNCHANGED <<leds, cfg, counts, debug_logging, status_led, shown>>

Handle_SHOW(data) ==
    /\ shown' = leds
    /\ show_calls' = 1
    /\ serial_tx' = <<>>
    /\ UNCHANGED <<leds, cfg, global_brightness, counts, debug_logging,
                   status_led>>

\* CLEAR that also restores the boot brightness
Handle_CLEAR_reset(data) ==
    /\ leds' = ClearActiveStrips(leds)
    /\ shown' = leds'
    /\ show_calls' = 1
    /\ serial_tx' = <<>>
    /\ global_brightness' = 50
    /\ UNCHANGED <<cfg, counts, debug_logging, status_led>>

Handle_CLEAR(data) ==
    /\ leds' = ClearActiveStrips(leds)
    /\ shown' = leds'
    /\ show_calls' = 1
    /\ serial_tx' = <<>>
    /\ UNCHANGED <<cfg, global_brightness, counts, debug_logging, status_led>>

Handle_SET_RANGE(data) ==
    /\ leds' =
         IF Len(data) < 4 THEN leds
         ELSE LET start == BE16(data, 1)
                  count == B(data, 3)
                  expected == 4 + count * 3
                  clipped == IF start + count > total_leds
                             THEN U8(total_leds - start) ELSE count
              IN  IF start >= total_leds THEN leds
                  ELSE IF Len(data) < expected THEN leds
                  ELSE SetRangeLoop(leds, data, start, clipped, 0)
    /\ serial_tx' = <<>>
    /\ show_calls' = 0
    /\ UNCHANGED <<cfg, global_brightness, counts, debug_logging, status_led,
                   shown>>

\* a size-mismatch branch that forgets to count the error
SetAllReject_uncounted ==
    /\ packet_errors' = packet_errors
    /\ serial_tx' = <<send_response(RESP_ERROR, "SIZE_MISMATCH")>>
    /\ show_calls' = 0
    /\ UNCHANGED <<leds, shown, frames_rendered>>

\* a size-mismatch branch reached after the frame was already counted
SetAllReject_counted ==
    /\ packet_errors' = packet_errors + 1
    /\ serial_tx' = <<send_response(RESP_ERROR, "SIZE_MISMATCH")>>
    /\ show_calls' = 0
    /\ frames_rendered' = frames_rendered + 1
    /\ UNCHANGED <<leds, shown>>

\* the size-mismatch branch of CMD_SET_ALL
SetAllReject ==
    /\ packet_errors' = packet_errors + 1
    /\ serial_tx' = <<send_response(RESP_ERROR, "SIZE_MISMATCH")>>
    /\ show_calls' = 0
    /\ UNCHANGED <<leds, shown, frames_rendered>>

\* a SET_ALL handler that acknowledges every accepted frame
Handle_SET_ALL_acked(data) ==
    /\ set_all_commands_received' = set_all_commands_received + 1
    /\ IF SetAllTooShort(Len(data))
       THEN SetAllReject
       ELSE /\ leds' = ClearUnused(SetAllLoop(leds, data, 0))
            /\ shown' = leds'
            /\ show_calls' = 1
            /\ frames_rendered' = frames_rendered + 1
            /\ serial_tx' = <<send_response(RESP_OK, "FRAME_OK")>>
            /\ UNCHANGED packet_errors
    /\ UNCHANGED <<cfg, global_brightness, config_commands_received,
                   debug_logging, status_led>>

\* a SET_ALL handler that forgets set_all_commands_received++
Handle_SET_ALL_uncounted(data) ==
    /\ set_all_commands_received' = set_all_commands_received
    /\ IF SetAllTooShort(Len(data))
       THEN SetAllReject
       ELSE /\ leds' = ClearUnused(SetAllLoop(leds, data, 0))
            /\ shown' = leds'
            /\ show_calls' = 1
            /\ frames_rendered' = frames_rendered + 1
            /\ serial_tx' = IF frames_rendered' <= 3
                            THEN <<send_response(RESP_OK, "FRAME_OK")>>
                            ELSE <<>>
            /\ UNCHANGED packet_errors
    /\ UNCHANGED <<cfg, global_brightness, config_commands_received,
                   debug_logging, status_led>>

Handle_SET_ALL(data) ==
    /\ set_all_commands_received' = set_all_commands_received + 1
    /\ IF SetAllTooShort(Len(data))
       THEN SetAllReject
       ELSE /\ leds' = ClearUnused(SetAllLoop(leds, data, 0))
            /\ shown' = leds'
            /\ show_calls' = 1
            /\ frames_rendered' = frames_rendered + 1
            /\ serial_tx' = IF frames_rendered' <= 3
                            THEN <<send_response(RESP_OK, "FRAME_OK")>>
                            ELSE <<>>
            /\ UNCHANGED packet_errors
    /\ UNCHANGED <<cfg, global_brightness, config_commands_received,
                   debug_logging, status_led>>

Handle_CONFIG(data) ==
    /\ config_commands_received' = config_commands_received + 1
    /\ IF ConfigTooShort(Len(data))
       THEN /\ serial_tx' = <<send_response(RESP_ERROR, "CONFIG_TOO_SHORT")>>
            /\ show_calls' = 0
            /\ UNCHANGED <<leds, cfg, shown, debug_logging>>
       ELSE LET new_strips == B(data, 1)
                new_len == BE16(data, 2)
            IN  IF ConfigInvalidStrips(new_strips)
                THEN /\ serial_tx' = <<send_response(RESP_ERROR, "INVALID_STRIPS")>>
                     /\ show_calls' = 0
                     /\ UNCHANGED <<leds, cfg, shown, debug_logging>>
                ELSE IF ConfigInvalidLength(new_len)
                THEN /\ serial_tx' = <<send_response(RESP_ERROR, "INVALID_LENGTH")>>
                     /\ show_calls' = 0
                     /\ UNCHANGED <<leds, cfg, shown, debug_logging>>
                ELSE /\ active_strips' = new_strips
                     /\ leds_per_strip' = new_len
                     /\ total_leds' = U16(new_strips * new_len)
                     /\ IF ConfigChanged(new_strips, new_len)
                        THEN /\ leds' = ClearAll(leds)
                             /\ shown' = leds'
                             /\ show_calls' = 1
                             /\ serial_tx' =
                                  <<send_response(RESP_OK, "CONFIG_CHANGED")>>
                        ELSE /\ serial_tx' =
                                  <<send_response(RESP_OK, "CONFIG_OK")>>
                             /\ show_calls' = 0
                             /\ UNCHANGED <<leds, shown>>
                     /\ debug_logging' = IF Len(data) >= 5
                                         THEN B(data, 4) # 0
                                         ELSE debug_logging
    /\ UNCHANGED <<global_brightness, frames_rendered, packet_errors,
                   set_all_commands_received, status_led>>

Handle_default(data) ==
    /\ packet_errors' = packet_errors + 1
    /\ serial_tx' = <<>>
    /\ show_calls' = 0
    /\ UNCHANGED <<leds, cfg, global_brightness, frames_rendered,
                   config_commands_received, set_all_commands_received,
                   debug_logging, status_led, shown>>

\* a dispatcher that counts the packet before it looks at the length
process_command_counted(data) ==
    IF Len(data) = 0
    THEN /\ packets_received' = packets_received + 1
         /\ UNCHANGED <<leds, cfg, global_brightness, frames_rendered,
                        packet_errors, config_commands_received,
                        set_all_commands_received, total_bytes_received,
                        debug_logging, status_led, shown, show_calls,
                        serial_tx>>
    ELSE /\ total_bytes_received' = total_bytes_received + Len(data)
         /\ packets_received' = packets_received + 1
         /\ LET cmd == B(data, 0)
            IN  CASE cmd = CMD_ECHO -> Handle_ECHO(data)
                  [] cmd = CMD_PING -> Handle_PING(data)
                  [] cmd = CMD_SET_PIXEL -> Handle_SET_PIXEL(data)
                  [] cmd = CMD_SET_BRIGHTNESS -> Handle_SET_BRIGHTNESS(data)
                  [] cmd = CMD_SHOW -> Handle_SHOW(data)
                  [] cmd = CMD_CLEAR -> Handle_CLEAR(data)
                  [] cmd = CMD_SET_RANGE -> Handle_SET_RANGE(data)
                  [] cmd = CMD_SET_ALL -> Handle_SET_ALL(data)
                  [] cmd = CMD_CONFIG -> Handle_CONFIG(data)
                  [] OTHER -> Handle_default(data)

\* static void process_command(const uint8_t *data, size_t length)
process_command(data) ==
    IF Len(data) = 0
    THEN UNCHANGED dvars
    ELSE /\ total_bytes_received' = total_bytes_received + Len(data)
         /\ packets_received' = packets_received + 1
         /\ LET cmd == B(data, 0)
            IN  CASE cmd = CMD_ECHO -> Handle_ECHO(data)
                  [] cmd = CMD_PING -> Handle_PING(data)
                  [] cmd = CMD_SET_PIXEL -> Handle_SET_PIXEL(data)
                  [] cmd = CMD_SET_BRIGHTNESS -> Handle_SET_BRIGHTNESS(data)
                  [] cmd = CMD_SHOW -> Handle_SHOW(data)
                  [] cmd = CMD_CLEAR -> Handle_CLEAR(data)
                  [] cmd = CMD_SET_RANGE -> Handle_SET_RANGE(data)
                  [] cmd = CMD_SET_ALL -> Handle_SET_ALL(data)
                  [] cmd = CMD_CONFIG -> Handle_CONFIG(data)
                  [] OTHER -> Handle_default(data)

\* ------------------------------------------------ SPI slave variant
\* part_003:513 (seven strips on D0-D6); the strip length limit is the same
SPI_MAX_STRIPS == 7
SPI_MAX_TOTAL_LEDS == SPI_MAX_STRIPS * MAX_LEDS_PER_STRIP
SPI_DEFAULT_STRIPS == SPI_MAX_STRIPS
CMD_STATS == 8
SpiPhys == 0 .. (SPI_MAX_TOTAL_LEDS - 1)
Grey == <<64, 64, 64>>

\* the SPI mapper with the stride of the packed logical layout
SpiLogicalToPhysical_packed(st, logical) ==
    LET strip == logical \div st.leds_per_strip
        offset == logical % st.leds_per_strip
    IN  IF strip >= st.active_strips
        THEN U16((st.active_strips - 1) * MAX_LEDS_PER_STRIP
                 + (st.leds_per_strip - 1))
        ELSE U16(strip * st.leds_per_strip + offset)

\* inline uint16_t logical_to_physical(uint16_t logical), SPI variant
SpiLogicalToPhysical(st, logical) ==
    LET strip == logical \div st.leds_per_strip
        offset == logical % st.leds_per_strip
    IN  IF strip >= st.active_strips
        THEN U16((st.active_strips - 1) * MAX_LEDS_PER_STRIP
                 + (st.leds_per_strip - 1))
        ELSE U16(strip * MAX_LEDS_PER_STRIP + offset)

\* FastLED.show(): setup() registered DEFAULT_LEDS_PER_STRIP pixels per
\* strip (part_003:823-829), so only those are clocked out
SpiShow(st) ==
    [st EXCEPT !.shown = [p \in SpiPhys |->
                            IF (p % MAX_LEDS_PER_STRIP) < DEFAULT_LEDS_PER_STRIP
                            THEN st.leds[p] ELSE st.shown[p]],
               !.show_calls = @ + 1]

\* CLEAR that blacks only the active region of each active strip
SpiClearActiveStrips_region(st) ==
    [p \in SpiPhys |->
        IF /\ (p \div MAX_LEDS_PER_STRIP) < st.active_strips
           /\ (p % MAX_LEDS_PER_STRIP) < st.leds_per_strip
        THEN Black ELSE st.leds[p]]

SpiClearActiveStrips(st) ==
    [p \in SpiPhys |->
        IF (p \div MAX_LEDS_PER_STRIP) < st.active_strips
        THEN Black ELSE st.leds[p]]

SpiClearUnused(st, buf) ==
    [p \in SpiPhys |->
        IF /\ (p \div MAX_LEDS_PER_STRIP) < st.active_strips
           /\ (p % MAX_LEDS_PER_STRIP) >= st.leds_per_strip
        THEN Black ELSE buf[p]]

RECURSIVE SpiSetAllLoop(_, _, _, _)
SpiSetAllLoop(st, buf, data, logical) ==
    IF logical >= st.total_leds THEN buf
    ELSE LET base == 1 + logical * 3
         IN  SpiSetAllLoop(st,
                 [buf EXCEPT ![SpiLogicalToPhysical(st, logical)] =
                     CRGB(B(data, base), B(data, base + 1), B(data, base + 2))],
                 data, logical + 1)

RECURSIVE SpiSetRangeLoop(_, _, _, _, _, _)
SpiSetRangeLoop(st, buf, data, start, count, i) ==
    IF i >= count THEN buf
    ELSE LET logical == U16(start + i)
             base == 4 + i * 3
         IN  IF logical >= st.total_leds THEN buf
             ELSE SpiSetRangeLoop(st,
                     [buf EXCEPT ![SpiLogicalToPhysical(st, logical)] =
                         CRGB(B(data, base), B(data, base + 1), B(data, base + 2))],
                     data, start, count, i + 1)

\* payload_or == 0 over data[1 .. length-1], for length > 1
SpiZeroPayload(data) ==
    Len(data) > 1 /\ \A i \in 1 .. (Len(data) - 1) : B(data, i) = 0

SpiHandle_PING(st, data) == [st EXCEPT !.status_led = ~@]

SpiHandle_SET_PIXEL(st, data) ==
    IF Len(data) < 6 THEN st
    ELSE LET pixel == BE16(data, 1)
         IN  IF pixel < st.total_leds
             THEN [st EXCEPT !.leds[SpiLogicalToPhysical(st, pixel)] =
                      CRGB(B(data, 3), B(data, 4), B(data, 5))]
             ELSE st

SpiHandle_SET_BRIGHTNESS(st, data) ==
    IF Len(data) < 2 THEN st ELSE [st EXCEPT !.global_brightness = B(data, 1)]

\* SHOW that counts a frame
SpiHandle_SHOW_counted(st, data) ==
    [SpiShow(st) EXCEPT !.frames_rendered = @ + 1]

SpiHandle_SHOW(st, data) == SpiShow(st)

SpiHandle_CLEAR(st, data) ==
    SpiShow([st EXCEPT !.leds = SpiClearActiveStrips(st)])

SpiHandle_SET_RANGE(st, data) ==
    IF Len(data) < 4 THEN st
    ELSE LET start == BE16(data, 1)
             count == B(data, 3)
             expected == 4 + count * 3
             clipped == IF start + count > st.total_leds
                        THEN U8(st.total_leds - start) ELSE count
         IN  IF start >= st.total_leds THEN st
             ELSE IF Len(data) < expected THEN st
             ELSE [st EXCEPT !.leds =
                      SpiSetRangeLoop(st, st.leds, data, start, clipped, 0)]

\* SET_ALL that accepts only a frame of exactly the expected size
SpiHandle_SET_ALL_exact(st, data) ==
    LET st1 == [st EXCEPT !.set_all_commands_received = @ + 1]
    IN  IF Len(data) # 1 + st.total_leds * 3 THEN st1
        ELSE LET st2 == [st1 EXCEPT !.leds =
                           SpiClearUnused(st, SpiSetAllLoop(st, st.leds, data, 0))]
             IN  [SpiShow(st2) EXCEPT !.frames_rendered = @ + 1]

SpiHandle_SET_ALL(st, data) ==
    LET st1 == [st EXCEPT !.set_all_commands_received = @ + 1]
    IN  IF Len(data) < 1 + st.total_leds * 3 THEN st1
        ELSE LET st2 == [st1 EXCEPT !.leds =
                           SpiClearUnused(st, SpiSetAllLoop(st, st.leds, data, 0))]
             IN  [SpiShow(st2) EXCEPT !.frames_rendered = @ + 1]

SpiHandle_STATS(st, data) == st

SpiHandle_CONFIG(st, data) ==
    LET st1 == [st EXCEPT !.config_commands_received = @ + 1]
    IN  IF Len(data) < 4 THEN st1
        ELSE LET new_strips == B(data, 1)
                 new_len == BE16(data, 2)
                 config_changed == (st.active_strips # new_strips)
                                       \/ (st.leds_per_strip # new_len)
                 st2 == [st1 EXCEPT !.active_strips = new_strips,
                                    !.leds_per_strip = new_len,
                                    !.total_leds = U16(new_strips * new_len)]
                 st3 == IF config_changed
                        THEN SpiShow([st2 EXCEPT !.leds =
                                         [p \in SpiPhys |-> Black]])
                        ELSE st2
             IN  IF new_strips = 0 \/ new_strips > SPI_MAX_STRIPS THEN st1
                 ELSE IF new_len = 0 \/ new_len > MAX_LEDS_PER_STRIP THEN st1
                 ELSE IF Len(data) >= 5
                      THEN [st3 EXCEPT !.debug_logging = (B(data, 4) # 0)]
                      ELSE st3

\* default: only a debug print
SpiHandle_default(st, data) == st

\* static void process_command(const uint8_t *data, size_t length), SPI
SpiProcessCommand(st, data) ==
    IF Len(data) = 0 THEN st
    ELSE LET cmd == B(data, 0)
             st1 == [st EXCEPT
                       !.total_bytes_received = @ + Len(data),
                       !.zero_payload_packets =
                           IF SpiZeroPayload(data) THEN @ + 1 ELSE @]
         IN  CASE cmd = CMD_PING -> SpiHandle_PING(st1, data)
               [] cmd = CMD_SET_PIXEL -> SpiHandle_SET_PIXEL(st1, data)
               [] cmd = CMD_SET_BRIGHTNESS -> SpiHandle_SET_BRIGHTNESS(st1, data)
               [] cmd = CMD_SHOW -> SpiHandle_SHOW(st1, data)
               [] cmd = CMD_CLEAR -> SpiHandle_CLEAR(st1, data)
               [] cmd = CMD_SET_RANGE -> SpiHandle_SET_RANGE(st1, data)
               [] cmd = CMD_SET_ALL -> SpiHandle_SET_ALL(st1, data)
               [] cmd = CMD_STATS -> SpiHandle_STATS(st1, data)
               [] cmd = CMD_CONFIG -> SpiHandle_CONFIG(st1, data)
               [] OTHER -> SpiHandle_default(st1, data)

\* State at the end of setup().  FastLED.clear() blacks only the pixels
\* registered with addLeds, DEFAULT_LEDS_PER_STRIP per strip, so the grey the
\* start-up flash wrote to leds[0 .. total_leds-1] stays in the slots behind
\* them.
InitSpi ==
    /\ spi = [leds |-> [p \in SpiPhys |->
                          IF /\ p < SPI_DEFAULT_STRIPS * DEFAULT_LEDS_PER_STRIP
                             /\ (p % MAX_LEDS_PER_STRIP) >= DEFAULT_LEDS_PER_STRIP
                          THEN Grey ELSE Black],
              active_strips |-> SPI_DEFAULT_STRIPS,
              leds_per_strip |-> DEFAULT_LEDS_PER_STRIP,
              total_leds |-> SPI_DEFAULT_STRIPS * DEFAULT_LEDS_PER_STRIP,
              global_brightness |-> 50,
              packets_received |-> 0,
              frames_rendered |-> 0,
              zero_payload_packets |-> 0,
              config_commands_received |-> 0,
              set_all_commands_received |-> 0,
              total_bytes_received |-> 0,
              debug_logging |-> FALSE,
              status_led |-> FALSE,
              shown |-> [p \in SpiPhys |-> Black],
              show_calls |-> 0,
              last_show_duration |-> 0,
              spi_tx_buffer |-> [i \in 0 .. (4 + (9 * 4) - 1) |-> 0]]
    /\ spi_rx_buffer = <<>>

\* ------------------------------------------- RP2040 polled SPI variant
\* main.cpp:19 is NUM_LED * 8 = 160; scaled down.
TOTAL_LEDS == 2
\* main.cpp:35 is 512, 31 bytes more than a SET_ALL frame of 1 + 160 * 3
CMD_BUFFER_SIZE == 1 + (TOTAL_LEDS * 3) + 31
PicoPixels == 0 .. (TOTAL_LEDS - 1)

\* leds.show()
PicoShow(p) == [p EXCEPT !.shown = p.pixels, !.show_calls = @ + 1]

\* void processCommand(): cmd_buffer[0 .. cmd_index-1] is p.cmd_buffer
processCommand(p) ==
    LET buf == p.cmd_buffer
        cmd_index == Len(buf)
    IN  IF cmd_index = 0 THEN p
        ELSE LET cmd == B(buf, 0)
             IN  CASE cmd = CMD_PING -> p
                   [] cmd = CMD_SET_PIXEL ->
                        IF cmd_index >= 6 /\ BE16(buf, 1) < TOTAL_LEDS
                        THEN [p EXCEPT !.pixels[BE16(buf, 1)] =
                                 CRGB(B(buf, 3), B(buf, 4), B(buf, 5))]
                        ELSE p
                   [] cmd = CMD_SET_BRIGHTNESS ->
                        IF cmd_index >= 2
                        THEN [p EXCEPT !.brightness = B(buf, 1)]
                        ELSE p
                   [] cmd = CMD_SHOW -> PicoShow(p)
                   [] cmd = CMD_CLEAR ->
                        PicoShow([p EXCEPT !.pixels = [i \in PicoPixels |-> Black]])
                   [] cmd = CMD_SET_ALL ->
                        IF cmd_index >= 1 + (TOTAL_LEDS * 3)
                        THEN [p EXCEPT !.pixels =
                                 [i \in PicoPixels |->
                                     CRGB(B(buf, 1 + (i * 3)),
                                          B(buf, 1 + (i * 3) + 1),
                                          B(buf, 1 + (i * 3) + 2))]]
                        ELSE p
                   [] OTHER -> p

\* State at the end of setup(): pixels cleared and shown, brightness 50, the
\* SPI peripheral just initialised (both FIFOs empty), chip select high.
\* History fields: pico.calls counts the calls of processCommand,
\* pico.ready says that loop() has filled the TX FIFO at least once,
\* pico.synced that loop() has sampled chip select high since the master
\* last released it; bus.completed counts the transactions the master has
\* completed, bus.starved says that the master clocked a byte out of an empty
\* TX FIFO, bus.clocked holds the bytes the master has clocked in its current
\* (or, between transactions, its latest) transaction.
InitPico ==
    /\ pico = [pc |-> "fill",
               in_transaction |-> FALSE,
               cmd_buffer |-> <<>>,
               pixels |-> [i \in PicoPixels |-> Black],
               shown |-> [i \in PicoPixels |-> Black],
               brightness |-> 50,
               show_calls |-> 0,
               calls |-> 0,
               ready |-> FALSE,
               synced |-> TRUE]
    /\ bus = [cs_low |-> FALSE,
              tx_fifo |-> 0,
              rx_fifo |-> <<>>,
              out |-> <<>>,
              clocked |-> <<>>,
              completed |-> 0,
              starved |-> FALSE]

\* ---------------------------------------------------------------- boot
\* State at the end of setup(): FastLED.clear() has blacked every registered
\* pixel (all MAX_LEDS_PER_STRIP of each strip), the status LED is LOW.
InitDispatcher ==
    /\ leds = [p \in Phys |-> Black]
    /\ active_strips = DEFAULT_STRIPS
    /\ leds_per_strip = DEFAULT_LEDS_PER_STRIP
    /\ total_leds = DEFAULT_STRIPS * DEFAULT_LEDS_PER_STRIP
    /\ global_brightness = 50
    /\ packets_received = 0
    /\ frames_rendered = 0
    /\ packet_errors = 0
    /\ config_commands_received = 0
    /\ set_all_commands_received = 0
    /\ total_bytes_received = 0
    /\ debug_logging = FALSE
    /\ status_led = FALSE
    /\ shown = [p \in Phys |-> Black]
    /\ show_calls = 0
    /\ serial_tx = <<>>

\* ------------------------------------------- statistics reporter, clock
\* if (now_ms - last_stats > 5000); the model counts time in seconds
STATS_PERIOD == 5
\* millis() is a uint32_t that wraps; the model clock has ClockBits bits
Millis(x) == x % (2 ^ ClockBits)

\* `stats` holds the clock, the statics of the reporter (part_003:66-70,
\* 453) and, as history, the line printed by the latest report (frames and
\* bytes numerators with their intervals, 0 where the code leaves the rate
\* at 0.0f), whether there has been a report, the counters and the clock
\* at the latest report, and a sequence bit that flips with every report.
\* loop() is first entered about 3 s after
\* power-up (delays and start-up animation of setup()).
InitStats ==
    stats = [now_ms |-> 3,
             last_stats |-> 0,
             last_frame_sample_time |-> 0,
             last_frame_sample_count |-> 0,
             last_bytes_sample |-> 0,
             last_bytes_sample_time |-> 0,
             frames_delta |-> 0, frames_dt |-> 0,
             bytes_delta |-> 0, bytes_dt |-> 0,
             had_report |-> FALSE,
             prev_frames |-> 0, prev_bytes |-> 0, prev_time |-> 0,
             seq |-> 0]

InitFraming ==
    /\ serial_rx = <<>>
    /\ header = <<>>
    /\ uart_buffer = <<>>
    /\ payload_len = 0
    /\ pc = "idle"
    /\ framing = "none"
    /\ sent = 0
    /\ stale = 0
    /\ waited = 0

InitMapper ==
    /\ map_logical = 0
    /\ map_physical = 0

Init ==
    InitDispatcher /\ InitFraming /\ InitMapper /\ InitSpi /\ InitPico
        /\ InitStats

\* ------------------------------------------------- Spec: the dispatcher
\* A validated payload has been read into uart_buffer and is handed to
\* process_command(uart_buffer, payload_len) (part_003:433-444).
Dispatch(data) ==
    /\ packets_received < MaxPackets
    /\ uart_buffer' = data
    /\ payload_len' = Len(data)
    /\ framing' = "dispatched"
    /\ process_command(data)
    /\ UNCHANGED <<serial_rx, header, pc, sent, stale, waited, mvars, svars,
                   ovars>>

\* Command buffers the host sends.  Payload bytes of a frame are seed + index
\* (never 0), so every pixel of a frame has its own colour.
Frame(op, len, seed) == [k \in 1 .. len |-> IF k = 1 THEN op ELSE U8(seed + k)]
Seeds == {10, 100}
Hi(x) == x \div 256
Lo(x) == x % 256

ConfigInputs ==
    {<<CMD_CONFIG, s, 0, n>> : s \in {1, MAX_STRIPS}, n \in {1, MAX_LEDS_PER_STRIP}}
    \cup {<<CMD_CONFIG, DEFAULT_STRIPS, 0, DEFAULT_LEDS_PER_STRIP>>,
          <<CMD_CONFIG, 0, 0, 1>>,
          <<CMD_CONFIG, MAX_STRIPS + 1, 0, 1>>,
          <<CMD_CONFIG, 1, 0, 0>>,
          <<CMD_CONFIG, 1, 0, MAX_LEDS_PER_STRIP + 1>>,
          <<CMD_CONFIG, 0, 0, 0>>,
          <<CMD_CONFIG, 1, 1, 1>>,
          <<CMD_CONFIG, 1, 0>>,
          <<CMD_CONFIG, MAX_STRIPS, 0, MAX_LEDS_PER_STRIP, 1>>}

HostSetAll ==
    \E len \in {1, total_leds * 3, 1 + total_leds * 3, 2 + total_leds * 3} :
        \E seed \in Seeds : Dispatch(Frame(CMD_SET_ALL, len, seed))

HostConfig == \E data \in ConfigInputs : Dispatch(data)

HostSetPixel ==
    \/ \E pixel \in {0, total_leds - 1, total_leds, 65535} :
          Dispatch(<<CMD_SET_PIXEL, Hi(pixel), Lo(pixel), 200, 201, 202>>)
    \/ Dispatch(<<CMD_SET_PIXEL, 0, 0, 200, 201>>)

HostSetRange ==
    \/ \E start \in {0, total_leds - 1, total_leds} :
          Dispatch(<<CMD_SET_RANGE, Hi(start), Lo(start), 2,
                     210, 211, 212, 220, 221, 222>>)
    \/ Dispatch(<<CMD_SET_RANGE, 0, 0, 2, 210, 211, 212>>)
    \/ Dispatch(<<CMD_SET_RANGE, 0, 0, 1, 210, 211, 212, 220, 221, 222>>)
    \/ Dispatch(<<CMD_SET_RANGE, 0, 0>>)

HostSetBrightness ==
    \/ Dispatch(<<CMD_SET_BRIGHTNESS, 255>>)
    \/ Dispatch(<<CMD_SET_BRIGHTNESS, 0>>)
    \/ Dispatch(<<CMD_SET_BRIGHTNESS>>)

HostShow == Dispatch(<<CMD_SHOW>>)
HostClear == Dispatch(<<CMD_CLEAR>>)
HostPing == Dispatch(<<CMD_PING>>)
\* a short echo and the echo of the largest payload the framing admits
HostEcho ==
    \/ Dispatch(<<CMD_ECHO, 1, 2>>)
    \/ Dispatch(Frame(CMD_ECHO, MAX_PACKET_SIZE, 10))
HostUnknown == Dispatch(<<8>>)

Next ==
    \/ HostSetAll
    \/ HostConfig
    \/ HostSetPixel
    \/ HostSetRange
    \/ HostSetBrightness
    \/ HostShow
    \/ HostClear
    \/ HostPing
    \/ HostEcho
    \/ HostUnknown

Spec == Init /\ [][Next]_vars

\* ------------------------------------------- MapSpec: the pure mapper
\* Every legal configuration (CONFIG can install each of them); the action
\* calls logical_to_physical on one 16-bit argument.
LogicalInputs ==
    (0 .. (MAX_TOTAL_LEDS + 1)) \cup {255, 256, 32767, 32768, 65534, 65535}

MapInit ==
    /\ leds = [p \in Phys |-> Black]
    /\ active_strips \in 1 .. MAX_STRIPS
    /\ leds_per_strip \in 1 .. MAX_LEDS_PER_STRIP
    /\ total_leds = U16(active_strips * leds_per_strip)
    /\ global_brightness = 50
    /\ packets_received = 0
    /\ frames_rendered = 0
    /\ packet_errors = 0
    /\ config_commands_received = 0
    /\ set_all_commands_received = 0
    /\ total_bytes_received = 0
    /\ debug_logging = FALSE
    /\ status_led = FALSE
    /\ shown = [p \in Phys |-> Black]
    /\ show_calls = 0
    /\ serial_tx = <<>>
    /\ InitFraming
    /\ InitMapper
    /\ InitSpi
    /\ InitPico
    /\ InitStats

MapCall ==
    \E logical \in LogicalInputs :
        /\ map_logical' = logical
        /\ map_physical' = logical_to_physical(logical)
        /\ UNCHANGED <<dvars, fvars, svars, ovars>>

MapNext == MapCall

MapSpec == MapInit /\ [][MapNext]_vars

\* ------------------------------------ FrameSpec: serial stream and loop()
\* The host (or line noise) puts bytes on the serial line one at a time, or
\* one whole well-formed packet at once; the receive queue fills while loop()
\* runs.  loop() is one action per outcome of an iteration; an iteration that
\* has to wait for the rest of a packet stays at pc = "wait" until the bytes
\* are there or 100 ms have passed.
ByteInputs == {PACKET_START, PACKET_END, 0, 1}

\* [0xAA][LEN_LOW][LEN_HIGH][PAYLOAD...][0x55] as the host builds it
Packet(data) ==
    <<PACKET_START, Lo(Len(data)), Hi(Len(data))>> \o data \o <<PACKET_END>>

\* payloads of well-formed packets, one or two per opcode (a CONFIG that
\* is applied and one that is rejected); the SET_ALL frame is the largest
\* payload the protocol allows; 0x08 has no case in the switch
PacketInputs ==
    {<<CMD_SET_PIXEL, 0, 0, 200, 201, 202>>,
     <<CMD_SET_BRIGHTNESS, 255>>,
     <<CMD_SHOW>>,
     <<CMD_CLEAR>>,
     <<CMD_SET_RANGE, 0, 0, 1, 210, 211, 212>>,
     Frame(CMD_SET_ALL, MAX_PACKET_SIZE, 10),
     <<CMD_CONFIG, 1, 0, 1>>,
     <<CMD_CONFIG, 0, 0, 1>>,
     <<CMD_ECHO, 1>>,
     <<CMD_PING>>,
     <<8>>}

\* a transmission whose header declares one byte more than the largest
\* payload
Oversized ==
    <<PACKET_START, Lo(MAX_PACKET_SIZE + 1), Hi(MAX_PACKET_SIZE + 1),
      CMD_SHOW, PACKET_END>>

Transmissions == {Packet(data) : data \in PacketInputs} \cup {Oversized}

HostByte ==
    \E b \in ByteInputs :
        /\ sent < MaxStream
        /\ serial_rx' = Append(serial_rx, b)
        /\ sent' = sent + 1
        /\ UNCHANGED <<dvars, header, uart_buffer, payload_len, pc, framing,
                       stale, waited, mvars, svars, ovars>>

HostPacket ==
    \E t \in Transmissions :
        /\ sent + 2 <= MaxStream
        /\ serial_rx' = serial_rx \o t
        /\ sent' = sent + 2
        /\ UNCHANGED <<dvars, header, uart_buffer, payload_len, pc, framing,
                       stale, waited, mvars, svars, ovars>>

\* a framing error that starts the error count over
CountError_reset ==
    /\ packet_errors' = 0
    /\ UNCHANGED <<leds, cfg, global_brightness, packets_received,
                   frames_rendered, config_commands_received,
                   set_all_commands_received, total_bytes_received,
                   debug_logging, status_led, shown, show_calls, serial_tx>>

\* a framing error: packet_errors++ and nothing else of the dispatcher state
CountError ==
    /\ packet_errors' = packet_errors + 1
    /\ UNCHANGED <<leds, cfg, global_brightness, packets_received,
                   frames_rendered, config_commands_received,
                   set_all_commands_received, total_bytes_received,
                   debug_logging, status_led, shown, show_calls, serial_tx>>

\* an end-marker check that never fails
EndInvalid_never(end) == FALSE
\* a length check that is off by one
LengthInvalid_atmax(len) == len >= MAX_PACKET_SIZE
\* a resync that drops everything buffered, as the bad-length branch does
Resync_flush(rx) == <<>>

\* n bytes of a run of k, after `taken` of them were read off the queue
Left(n, taken) == IF n > taken THEN n - taken ELSE 0

\* uint16_t payload_len = len_low | (len_high << 8)
PayloadLen(len_low, len_high) == U16(len_low + len_high * 256)
\* a length check that admits every declared length
LengthInvalid_never(len) == FALSE

\* if (payload_len > MAX_PACKET_SIZE)
LengthInvalid(len) == len > MAX_PACKET_SIZE
\* while (Serial.available() < payload_len + 1)
MustWait(available, len) == available < len + 1
\* if (end != PACKET_END)
EndInvalid(end) == end # PACKET_END
\* if (millis() - timeout_start > 100)
WAIT_TIMEOUT == 100
TimedOut_atlimit(ms) == ms >= WAIT_TIMEOUT
TimedOut(ms) == ms > WAIT_TIMEOUT
\* Time one turn of the wait loop takes, delayMicroseconds(100) in the
\* source; the model takes 50 ms steps, so that the loop is seen at
\* exactly 100 ms and just above.
SpinMs == 50
\* else branch of (start == PACKET_START): only `start`, already taken by
\* Serial.read(), is dropped; the rest of the queue stays
Resync(rx) == Tail(rx)

\* a read that also throws away whatever follows the packet in the queue
ReadPayload_greedy(rx, len) ==
    LET payload == SubSeq(rx, 1, len)
        end == rx[len + 1]
    IN  /\ uart_buffer' = payload
        /\ serial_rx' = <<>>
        /\ pc' = "idle"
        /\ IF EndInvalid(end)
           THEN /\ framing' = "bad_end"
                /\ CountError
           ELSE /\ framing' = "dispatched"
                /\ process_command(payload)

\* Serial.readBytes(uart_buffer, payload_len); end = Serial.read(); then the
\* end marker check and process_command(uart_buffer, payload_len).
\* `rx` is the receive queue with the header already taken off.
ReadPayload(rx, len) ==
    LET payload == SubSeq(rx, 1, len)
        end == rx[len + 1]
    IN  /\ uart_buffer' = payload
        /\ serial_rx' = SubSeq(rx, len + 2, Len(rx))
        /\ pc' = "idle"
        /\ IF EndInvalid(end)
           THEN /\ framing' = "bad_end"
                /\ CountError
           ELSE /\ framing' = "dispatched"
                /\ process_command(payload)

\* start != PACKET_START: discard one byte and resync
LoopBadStart ==
    /\ pc = "idle"
    /\ Len(serial_rx) >= 4
    /\ Head(serial_rx) # PACKET_START
    /\ header' = <<Head(serial_rx)>>
    /\ serial_rx' = Resync(serial_rx)
    /\ framing' = "bad_start"
    /\ stale' = Left(stale, 1)
    /\ CountError
    /\ UNCHANGED <<uart_buffer, payload_len, pc, sent, waited, mvars, svars,
                   ovars>>

\* declared length above MAX_PACKET_SIZE: count and flush the queue
LoopBadLength ==
    /\ pc = "idle"
    /\ Len(serial_rx) >= 4
    /\ Head(serial_rx) = PACKET_START
    /\ LengthInvalid(PayloadLen(serial_rx[2], serial_rx[3]))
    /\ header' = SubSeq(serial_rx, 1, 3)
    /\ payload_len' = PayloadLen(serial_rx[2], serial_rx[3])
    /\ serial_rx' = <<>>
    /\ framing' = "bad_length"
    /\ stale' = 0
    /\ CountError
    /\ UNCHANGED <<uart_buffer, pc, sent, waited, mvars, svars, ovars>>

\* header read, payload and end marker already in the queue
LoopPacket ==
    /\ pc = "idle"
    /\ Len(serial_rx) >= 4
    /\ Head(serial_rx) = PACKET_START
    /\ LET len == PayloadLen(serial_rx[2], serial_rx[3])
           rest == SubSeq(serial_rx, 4, Len(serial_rx))
       IN  /\ ~LengthInvalid(len)
           /\ ~MustWait(Len(rest), len)
           /\ header' = SubSeq(serial_rx, 1, 3)
           /\ payload_len' = len
           /\ stale' = Left(stale, len + 4)
           /\ ReadPayload(rest, len)
    /\ UNCHANGED <<sent, waited, mvars, svars, ovars>>

\* header read, payload not complete: enter the wait loop
LoopWait ==
    /\ pc = "idle"
    /\ Len(serial_rx) >= 4
    /\ Head(serial_rx) = PACKET_START
    /\ LET len == PayloadLen(serial_rx[2], serial_rx[3])
           rest == SubSeq(serial_rx, 4, Len(serial_rx))
       IN  /\ ~LengthInvalid(len)
           /\ MustWait(Len(rest), len)
           /\ header' = SubSeq(serial_rx, 1, 3)
           /\ payload_len' = len
           /\ serial_rx' = rest
    /\ stale' = Left(stale, 3)
    /\ pc' = "wait"
    /\ framing' = "waiting"
    /\ waited' = 0
    /\ UNCHANGED <<dvars, uart_buffer, sent, mvars, svars, ovars>>

\* the wait loop finds the packet still incomplete and the time not yet
\* over: delayMicroseconds(100), then the next test
LoopSpin ==
    /\ pc = "wait"
    /\ MustWait(Len(serial_rx), payload_len)
    /\ ~TimedOut(waited)
    /\ waited' = waited + SpinMs
    /\ UNCHANGED <<dvars, serial_rx, header, uart_buffer, payload_len, pc,
                   framing, sent, stale, mvars, svars, ovars>>

\* the rest of the packet arrived before the timeout
LoopWaitDone ==
    /\ pc = "wait"
    /\ ~MustWait(Len(serial_rx), payload_len)
    /\ ReadPayload(serial_rx, payload_len)
    /\ stale' = Left(stale, payload_len + 1)
    /\ waited' = 0
    /\ UNCHANGED <<header, payload_len, sent, mvars, svars, ovars>>

\* millis() - timeout_start > 100 with the packet still incomplete
LoopTimeout ==
    /\ pc = "wait"
    /\ MustWait(Len(serial_rx), payload_len)
    /\ TimedOut(waited)
    /\ pc' = "idle"
    /\ waited' = 0
    /\ framing' = "timeout"
    /\ stale' = Len(serial_rx)
    /\ CountError
    /\ UNCHANGED <<serial_rx, header, uart_buffer, payload_len, sent, mvars,
                   svars, ovars>>

FrameNext ==
    \/ HostByte
    \/ HostPacket
    \/ LoopBadStart
    \/ LoopBadLength
    \/ LoopPacket
    \/ LoopWait
    \/ LoopSpin
    \/ LoopWaitDone
    \/ LoopTimeout

FrameSpec == Init /\ [][FrameNext]_vars

\* ------------------------------------------ LiveSpec: the loop keeps running
\* The host sends single bytes; loop() is the only thread of the firmware
\* and is never suspended, so a step of the wait loop that stays possible
\* is eventually taken.
LiveNext ==
    \/ HostByte
    \/ LoopBadStart
    \/ LoopBadLength
    \/ LoopPacket
    \/ LoopWait
    \/ LoopSpin
    \/ LoopWaitDone
    \/ LoopTimeout

LiveSpec ==
    /\ Init
    /\ [][LiveNext]_vars
    /\ WF_vars(LoopSpin)
    /\ WF_vars(LoopWaitDone)
    /\ WF_vars(LoopTimeout)

\* --------------------------------------- SpiSpec: one command per transaction
\* A bus transaction of Len(data) >= 1 bytes completed: the post-transaction
\* callback counts it (part_003:614-616), then loop() calls
\* process_command(spi_rx_buffer, bytes) (part_003:931-944).
SpiTransaction(data) ==
    /\ spi.packets_received < MaxPackets
    /\ spi_rx_buffer' = data
    /\ spi' = SpiProcessCommand(
                  [spi EXCEPT !.packets_received = @ + 1, !.show_calls = 0],
                  data)
    /\ UNCHANGED <<dvars, fvars, mvars, ovars>>

SpiConfigInputs ==
    {<<CMD_CONFIG, s, 0, n>> :
        s \in {1, SPI_MAX_STRIPS}, n \in {1, MAX_LEDS_PER_STRIP}}
    \cup {<<CMD_CONFIG, SPI_DEFAULT_STRIPS, 0, DEFAULT_LEDS_PER_STRIP>>,
          <<CMD_CONFIG, 0, 0, 1>>,
          <<CMD_CONFIG, SPI_MAX_STRIPS + 1, 0, 1>>,
          <<CMD_CONFIG, 1, 0, MAX_LEDS_PER_STRIP + 1>>,
          <<CMD_CONFIG, 1, 0>>}

SpiHostSetAll ==
    \E len \in {spi.total_leds * 3, 1 + spi.total_leds * 3,
                2 + spi.total_leds * 3} :
        \E seed \in Seeds : SpiTransaction(Frame(CMD_SET_ALL, len, seed))
SpiHostConfig == \E data \in SpiConfigInputs : SpiTransaction(data)
SpiHostSetPixel ==
    \/ \E pixel \in {0, spi.total_leds - 1, spi.total_leds} :
          SpiTransaction(<<CMD_SET_PIXEL, Hi(pixel), Lo(pixel), 200, 201, 202>>)
    \/ SpiTransaction(<<CMD_SET_PIXEL, 0, 0, 200, 201>>)
SpiHostSetRange ==
    \/ \E start \in {0, spi.total_leds - 1, spi.total_leds} :
          SpiTransaction(<<CMD_SET_RANGE, Hi(start), Lo(start), 2,
                           210, 211, 212, 220, 221, 222>>)
    \/ SpiTransaction(<<CMD_SET_RANGE, 0, 0, 2, 210, 211, 212>>)
SpiHostSetBrightness == SpiTransaction(<<CMD_SET_BRIGHTNESS, 255>>)
SpiHostShow == SpiTransaction(<<CMD_SHOW>>)
SpiHostClear == SpiTransaction(<<CMD_CLEAR>>)
SpiHostPing == SpiTransaction(<<CMD_PING>>)
SpiHostStats == SpiTransaction(<<CMD_STATS>>)
SpiHostUnknown ==
    \E data \in {<<9>>, <<9, 1>>, <<9, 0>>, <<CMD_ECHO, 1, 2>>} :
        SpiTransaction(data)

SpiNext ==
    \/ SpiHostSetAll
    \/ SpiHostConfig
    \/ SpiHostSetPixel
    \/ SpiHostSetRange
    \/ SpiHostSetBrightness
    \/ SpiHostShow
    \/ SpiHostClear
    \/ SpiHostPing
    \/ SpiHostStats
    \/ SpiHostUnknown

SpiSpec == Init /\ [][SpiNext]_vars

\* ------------------------- PairSpec: both dispatchers, the same commands
\* The host sends the same command buffer to a board running the framed-stream
\* firmware and to a board running the SPI slave firmware; each runs its own
\* process_command on it.  Both boards start from their own boot state.
PairTransaction(data) ==
    /\ packets_received < MaxPackets
    /\ uart_buffer' = data
    /\ payload_len' = Len(data)
    /\ framing' = "dispatched"
    /\ process_command(data)
    /\ spi_rx_buffer' = data
    /\ spi' = SpiProcessCommand(
                  [spi EXCEPT !.packets_received = @ + 1, !.show_calls = 0],
                  data)
    /\ UNCHANGED <<serial_rx, header, pc, sent, stale, waited, mvars, ovars>>

\* layouts both variants accept, one only the framed-stream variant accepts
\* (MAX_STRIPS strips), and rejected ones
PairConfigInputs ==
    {<<CMD_CONFIG, s, 0, n>> :
        s \in {1, SPI_MAX_STRIPS}, n \in {1, MAX_LEDS_PER_STRIP}}
    \cup {<<CMD_CONFIG, SPI_DEFAULT_STRIPS, 0, DEFAULT_LEDS_PER_STRIP>>,
          <<CMD_CONFIG, MAX_STRIPS, 0, 1>>,
          <<CMD_CONFIG, 0, 0, 1>>,
          <<CMD_CONFIG, 1, 0, MAX_LEDS_PER_STRIP + 1>>,
          <<CMD_CONFIG, 1, 0>>}

PairSetAll ==
    \E len \in {total_leds * 3, 1 + total_leds * 3, 2 + total_leds * 3} :
        \E seed \in Seeds : PairTransaction(Frame(CMD_SET_ALL, len, seed))
PairConfig == \E data \in PairConfigInputs : PairTransaction(data)
PairSetPixel ==
    \/ \E pixel \in {0, total_leds - 1, total_leds} :
          PairTransaction(<<CMD_SET_PIXEL, Hi(pixel), Lo(pixel), 200, 201, 202>>)
    \/ PairTransaction(<<CMD_SET_PIXEL, 0, 0, 200, 201>>)
PairSetRange ==
    \/ \E start \in {0, total_leds - 1, total_leds} :
          PairTransaction(<<CMD_SET_RANGE, Hi(start), Lo(start), 2,
                            210, 211, 212, 220, 221, 222>>)
    \/ PairTransaction(<<CMD_SET_RANGE, 0, 0, 2, 210, 211, 212>>)
PairSetBrightness ==
    \/ PairTransaction(<<CMD_SET_BRIGHTNESS, 255>>)
    \/ PairTransaction(<<CMD_SET_BRIGHTNESS>>)
PairShow == PairTransaction(<<CMD_SHOW>>)
PairClear == PairTransaction(<<CMD_CLEAR>>)
PairPing == PairTransaction(<<CMD_PING>>)
PairOther ==
    \E data \in {<<CMD_STATS>>, <<9>>, <<CMD_ECHO, 1, 2>>} :
        PairTransaction(data)

PairNext ==
    \/ PairSetAll
    \/ PairConfig
    \/ PairSetPixel
    \/ PairSetRange
    \/ PairSetBrightness
    \/ PairShow
    \/ PairClear
    \/ PairPing
    \/ PairOther

PairSpec == Init /\ [][PairNext]_vars

\* ------------------------------- PicoSpec: polled SPI slave and its master
\* The bus master selects the board, clocks the bytes of one command and
\* releases chip select; the SPI peripheral shifts one byte out of the TX
\* FIFO and one byte into the RX FIFO per byte clocked (a byte clocked into
\* a full RX FIFO is lost).  loop() runs beside it: fill the TX FIFO, sample
\* chip select (and process the command on its release), drain the RX FIFO.
\* The master starts its first transaction once loop() is running.
PicoMessages ==
    {<<CMD_SHOW>>,
     <<CMD_CLEAR>>,
     <<CMD_PING>>,
     <<CMD_SET_BRIGHTNESS, 255>>,
     <<CMD_SET_PIXEL, 0, 1, 200, 201, 202>>,
     Frame(CMD_SET_ALL, 1 + (TOTAL_LEDS * 3), 10)}

MasterSelect ==
    \E msg \in PicoMessages :
        /\ pico.ready
        /\ ~bus.cs_low
        /\ bus.completed < MaxTransactions
        /\ bus' = [bus EXCEPT !.cs_low = TRUE, !.out = msg,
                              !.clocked = <<>>]
        /\ pico' = [pico EXCEPT !.synced = FALSE]
        /\ UNCHANGED <<dvars, fvars, mvars, svars, stats>>

MasterClock ==
    /\ bus.cs_low
    /\ bus.out # <<>>
    /\ bus' = [bus EXCEPT
                 !.out = Tail(@),
                 !.clocked = Append(@, Head(bus.out)),
                 !.tx_fifo = IF @ > 0 THEN @ - 1 ELSE 0,
                 !.rx_fifo = IF Len(@) < FifoDepth
                             THEN Append(@, Head(bus.out)) ELSE @,
                 !.starved = @ \/ bus.tx_fifo = 0]
    /\ UNCHANGED <<dvars, fvars, mvars, svars, pico, stats>>

MasterRelease ==
    /\ bus.cs_low
    /\ bus.out = <<>>
    /\ bus' = [bus EXCEPT !.cs_low = FALSE, !.completed = @ + 1]
    /\ UNCHANGED <<dvars, fvars, mvars, svars, pico, stats>>

\* while (spi_is_writable(SPI_INST)) spi_get_hw(SPI_INST)->dr = 0x00;
PicoFill ==
    /\ pico.pc = "fill"
    /\ bus' = [bus EXCEPT !.tx_fifo = FifoDepth]
    /\ pico' = [pico EXCEPT !.pc = "sample", !.ready = TRUE]
    /\ UNCHANGED <<dvars, fvars, mvars, svars, stats>>

\* bool cs_low = !gpio_get(SPI_CS_PIN); start or end of a transaction
PicoSample ==
    /\ pico.pc = "sample"
    /\ LET cs_low == bus.cs_low
           started == IF cs_low /\ ~pico.in_transaction
                      THEN [pico EXCEPT !.in_transaction = TRUE,
                                        !.cmd_buffer = <<>>]
                      ELSE pico
           ended == IF ~cs_low /\ started.in_transaction
                    THEN processCommand(
                             [started EXCEPT !.in_transaction = FALSE,
                                             !.show_calls = 0,
                                             !.calls = @ + 1])
                    ELSE started
       IN  pico' = [ended EXCEPT !.pc = "drain",
                                 !.synced = @ \/ ~cs_low]
    /\ UNCHANGED <<dvars, fvars, mvars, svars, bus, stats>>

\* while (spi_is_readable(SPI_INST)) { byte = dr; store if in_transaction }
PicoDrain ==
    /\ pico.pc = "drain"
    /\ bus' = [bus EXCEPT !.rx_fifo = <<>>]
    /\ pico' = [pico EXCEPT
                  !.pc = "fill",
                  !.cmd_buffer =
                      IF pico.in_transaction
                      THEN SubSeq(@ \o bus.rx_fifo, 1,
                                  IF Len(@ \o bus.rx_fifo) < CMD_BUFFER_SIZE
                                  THEN Len(@ \o bus.rx_fifo)
                                  ELSE CMD_BUFFER_SIZE)
                      ELSE @]
    /\ UNCHANGED <<dvars, fvars, mvars, svars, stats>>

PicoNext ==
    \/ MasterSelect
    \/ MasterClock
    \/ MasterRelease
    \/ PicoFill
    \/ PicoSample
    \/ PicoDrain

PicoSpec == Init /\ [][PicoNext]_vars

\* ------------------------------------- StatsSpec: loop() and its reporter
\* if (now_ms - last_stats > 5000)
StatsDue(now_ms, last_stats) == Millis(now_ms - last_stats) > STATS_PERIOD

\* The reporter at the end of loop() (part_003:452-493; 945-1006 in the SPI
\* variant).  It reads the counters and writes only its own statics.
StatsReporter ==
    /\ stats' =
         IF ~StatsDue(stats.now_ms, stats.last_stats) THEN stats
         ELSE LET now_ms == stats.now_ms
                  fdt == Millis(now_ms - stats.last_frame_sample_time)
                  fdelta == frames_rendered - stats.last_frame_sample_count
                  fshown == stats.last_frame_sample_time # 0 /\ fdt > 0
                  bdt == Millis(now_ms - stats.last_bytes_sample_time)
                  bdelta == total_bytes_received - stats.last_bytes_sample
                  bshown == stats.last_bytes_sample_time # 0 /\ bdt > 0
              IN  [stats EXCEPT
                     !.frames_delta = IF fshown THEN fdelta ELSE 0,
                     !.frames_dt = IF fshown THEN fdt ELSE 0,
                     !.last_frame_sample_time = now_ms,
                     !.last_frame_sample_count = frames_rendered,
                     !.bytes_delta = IF bshown THEN bdelta ELSE 0,
                     !.bytes_dt = IF bshown THEN bdt ELSE 0,
                     !.last_bytes_sample = total_bytes_received,
                     !.last_bytes_sample_time = now_ms,
                     !.last_stats = now_ms,
                     !.had_report = TRUE,
                     !.prev_frames = frames_rendered,
                     !.prev_bytes = total_bytes_received,
                     !.prev_time = now_ms,
                     !.seq = 1 - @]
    /\ UNCHANGED <<dvars, fvars, mvars, svars, pvars>>

\* one second passes
StatsTick ==
    /\ stats' = [stats EXCEPT !.now_ms = Millis(@ + 1)]
    /\ UNCHANGED <<dvars, fvars, mvars, svars, pvars>>

\* loop() dispatches a command: a frame that is rendered, or a ping
StatsCommand ==
    \E data \in {Frame(CMD_SET_ALL, 1 + total_leds * 3, 10), <<CMD_PING>>} :
        Dispatch(data)

StatsNext ==
    \/ StatsCommand
    \/ StatsTick
    \/ StatsReporter

StatsSpec == Init /\ [][StatsNext]_vars

\* ================================================================ claims
\* Vocabulary of the claims, stated independently of the handlers.
IsCommand(buf, op) == Len(buf) > 0 /\ buf[1] = op
\* physical slot p lies in the active region
Active(p) ==
    /\ (p \div MAX_LEDS_PER_STRIP) < active_strips
    /\ (p % MAX_LEDS_PER_STRIP) < leds_per_strip
\* strip-major physical slot of logical index i
Slot(i) == (i \div leds_per_strip) * MAX_LEDS_PER_STRIP + (i % leds_per_strip)
\* last physical slot of the last active strip
LastSlot == (active_strips - 1) * MAX_LEDS_PER_STRIP + (leds_per_strip - 1)
Expected == 1 + total_leds * 3
Lit == \E p \in Phys : leds[p] # Black
AllBlack(buf) == \A p \in Phys : buf[p] = Black
\* this step handed a non-empty buffer with opcode op to process_command
Dispatched(op) ==
    /\ packets_received' = packets_received + 1
    /\ IsCommand(uart_buffer', op)
Said(code, message) == serial_tx = <<send_response(code, message)>>

C2_ExactAccepted ==
    [][(Dispatched(CMD_SET_ALL) /\ Len(uart_buffer') = Expected) =>
          /\ \A i \in 0 .. (total_leds - 1) :
                leds'[Slot(i)] = <<uart_buffer'[2 + 3 * i],
                                   uart_buffer'[3 + 3 * i],
                                   uart_buffer'[4 + 3 * i]>>
          /\ \A p \in Phys : ~Active(p) => leds'[p] = Black
          /\ frames_rendered' = frames_rendered + 1]_vars

C2_Witness ==
    /\ IsCommand(uart_buffer, CMD_SET_ALL)
    /\ Len(uart_buffer) = Expected
    /\ Said(RESP_OK, "FRAME_OK")
    /\ frames_rendered >= 1
    /\ leds_per_strip < MAX_LEDS_PER_STRIP
    /\ leds[LastSlot] # Black

\* ---- C3
\* C3: in every reachable state every physical slot outside the active
\* region is black, in the render buffer and on the strips as last shown;
\* right after a CONFIG that changed the layout the whole buffer is black.
C3_NoStaleLeak ==
    /\ \A p \in Phys : ~Active(p) => (leds[p] = Black /\ shown[p] = Black)
    /\ Said(RESP_OK, "CONFIG_CHANGED") => (AllBlack(leds) /\ AllBlack(shown))

C3_Witness ==
    /\ Said(RESP_OK, "CONFIG_CHANGED")
    /\ frames_rendered >= 1
    /\ active_strips < MAX_STRIPS

\* ---- C4
\* C4: in every reachable state 1 <= active_strips <= MAX_STRIPS,
\* 1 <= leds_per_strip <= MAX_LEDS_PER_STRIP, total_leds is their product.
C4_ConfigInvariant ==
    /\ active_strips \in 1 .. MAX_STRIPS
    /\ leds_per_strip \in 1 .. MAX_LEDS_PER_STRIP
    /\ total_leds = active_strips * leds_per_strip

C4_Witness ==
    /\ Said(RESP_ERROR, "INVALID_STRIPS")
    /\ active_strips = 1
    /\ leds_per_strip = 1
    /\ config_commands_received >= 2

\* ---- C5
ValidConfig(buf) ==
    /\ IsCommand(buf, CMD_CONFIG)
    /\ Len(buf) >= 4
    /\ buf[2] \in 1 .. MAX_STRIPS
    /\ (buf[3] * 256 + buf[4]) \in 1 .. MAX_LEDS_PER_STRIP

Rejected(message) ==
    /\ serial_tx' = <<send_response(RESP_ERROR, message)>>
    /\ UNCHANGED <<active_strips, leds_per_strip, total_leds, leds>>

\* C6: a CONFIG with fewer than 3 payload bytes is answered TOO_SHORT, one
\* whose strip count is 0 or above MAX_STRIPS INVALID_STRIPS, one whose
\* length is 0 or above MAX_LEDS_PER_STRIP INVALID_LENGTH (the checks run in
\* this order, the first that fails answers); each time exactly one error
\* response is emitted and configuration and pixels are unchanged.
C6_ConfigRejected ==
    [][Dispatched(CMD_CONFIG) =>
          LET b == uart_buffer'
              n == b[3] * 256 + b[4]
          IN  /\ Len(b) < 4 => Rejected("CONFIG_TOO_SHORT")
              /\ (Len(b) >= 4 /\ (b[2] = 0 \/ b[2] > MAX_STRIPS)) =>
                    Rejected("INVALID_STRIPS")
              /\ (Len(b) >= 4 /\ b[2] \in 1 .. MAX_STRIPS
                     /\ (n = 0 \/ n > MAX_LEDS_PER_STRIP)) =>
                    Rejected("INVALID_LENGTH")]_vars

C6_Witness ==
    /\ IsCommand(uart_buffer, CMD_CONFIG)
    /\ Said(RESP_ERROR, "INVALID_LENGTH")
    /\ frames_rendered >= 1
    /\ Lit

\* ---- C7
\* C7: for a logical index below total_leds the mapper returns
\* (i / leds_per_strip) * MAX_LEDS_PER_STRIP + i % leds_per_strip, a slot
\* of the active region, and no other in-range index maps to that slot.
C7_MapInRange ==
    map_logical < total_leds =>
        /\ map_physical = Slot(map_logical)
        /\ Active(map_physical)
        /\ \A j \in 0 .. (total_leds - 1) :
              j # map_logical => logical_to_physical(j) # map_physical

C7_Witness ==
    /\ active_strips = MAX_STRIPS
    /\ leds_per_strip = MAX_LEDS_PER_STRIP - 1
    /\ map_logical = total_leds - 1
    /\ map_physical = MAX_TOTAL_LEDS - 2

\* ---- C8
\* C8: for a 16-bit logical index at or above total_leds the mapper returns
\* the last physical slot of the last active strip.
C8_MapClamp == map_logical >= total_leds => map_physical = LastSlot

C8_Witness ==
    /\ active_strips = 2
    /\ leds_per_strip = MAX_LEDS_PER_STRIP - 1
    /\ map_logical = 65535
    /\ map_physical = 2 * MAX_LEDS_PER_STRIP - 2

\* ---- C9
PixelOf(buf) == buf[2] * 256 + buf[3]
ColourOf(buf) == <<buf[4], buf[5], buf[6]>>

Stream == IF pc = "wait" THEN header \o serial_rx ELSE serial_rx
DeclaredLen == Stream[2] + 256 * Stream[3]
ValidPacketAhead ==
    /\ Len(Stream) >= 4
    /\ Stream[1] = PACKET_START
    /\ DeclaredLen <= MAX_PACKET_SIZE
    /\ Len(Stream) >= DeclaredLen + 4
    /\ Stream[DeclaredLen + 4] = PACKET_END
FramingFailureAhead ==
    \/ /\ pc = "idle"
       /\ Len(serial_rx) >= 4
       /\ \/ serial_rx[1] # PACKET_START
          \/ DeclaredLen > MAX_PACKET_SIZE
    \/ /\ Len(Stream) >= 4
       /\ Stream[1] = PACKET_START
       /\ DeclaredLen <= MAX_PACKET_SIZE
       /\ Len(Stream) >= DeclaredLen + 4
       /\ Stream[DeclaredLen + 4] # PACKET_END
    \/ /\ pc = "wait"
       /\ Len(serial_rx) < payload_len + 1
       /\ TimedOut(waited)
OnlyErrorCounted ==
    /\ packet_errors' = packet_errors + 1
    /\ UNCHANGED <<leds, active_strips, leds_per_strip, total_leds,
                   global_brightness, packets_received, frames_rendered,
                   config_commands_received, set_all_commands_received,
                   total_bytes_received, debug_logging, status_led, shown>>

\* C10: process_command takes effect only for a packet whose start marker,
\* declared length and end marker were validated, and then on exactly the
\* LENGTH payload bytes; on a bad start byte, an oversized length, a bad end
\* marker or a timeout the only change to the dispatcher state is
\* packet_errors + 1; nothing else changes the dispatcher state.
C10_NoPartialApplication ==
    [][/\ packets_received' # packets_received =>
             /\ ValidPacketAhead
             /\ uart_buffer' = SubSeq(Stream, 4, DeclaredLen + 3)
             /\ payload_len' = DeclaredLen
             /\ total_bytes_received' = total_bytes_received + DeclaredLen
       /\ (sent' = sent /\ FramingFailureAhead) => OnlyErrorCounted
       /\ dvars' # dvars => (ValidPacketAhead \/ FramingFailureAhead)]_vars

C10_Witness ==
    /\ framing = "bad_end"
    /\ packets_received = 1
    /\ packet_errors = 1
    /\ leds[0] # Black

\* ---- C11
\* s starts with a well-formed packet [0xAA][LEN_LO][LEN_HI][payload][0x55]
LenOf(s) == s[2] + 256 * s[3]
WellFormed(s) ==
    /\ Len(s) >= 4
    /\ s[1] = PACKET_START
    /\ LenOf(s) <= MAX_PACKET_SIZE
    /\ Len(s) >= LenOf(s) + 4
    /\ s[LenOf(s) + 4] = PACKET_END
PayloadOf(s) == SubSeq(s, 4, LenOf(s) + 3)
AfterPacket(s) == SubSeq(s, LenOf(s) + 5, Len(s))
\* a step of loop(), as opposed to a step of the host
LoopStep == sent' = sent
\* the dispatcher itself counts no error for this payload
CleanPayload(d) ==
    \/ Len(d) = 0
    \/ d[1] \in {CMD_SET_PIXEL, CMD_SET_BRIGHTNESS, CMD_SHOW, CMD_CLEAR,
                 CMD_SET_RANGE, CMD_CONFIG, CMD_ECHO, CMD_PING}

\* C11: when the receive queue holds one byte that is not 0xAA followed by
\* a well-formed packet, loop() drops that byte alone and counts exactly one
\* error; its next iteration takes the packet off the queue and hands
\* exactly its payload to process_command, once, counting no further
\* framing error.
C11_Resync ==
    [][LoopStep =>
          /\ (pc = "idle" /\ Len(serial_rx) >= 5
                 /\ serial_rx[1] # PACKET_START
                 /\ WellFormed(Tail(serial_rx))) =>
                /\ serial_rx' = Tail(serial_rx)
                /\ OnlyErrorCounted
                /\ WellFormed(serial_rx')
          /\ (pc = "idle" /\ framing = "bad_start" /\ WellFormed(serial_rx)) =>
                /\ framing' = "dispatched"
                /\ uart_buffer' = PayloadOf(serial_rx)
                /\ serial_rx' = AfterPacket(serial_rx)
                /\ packets_received' = packets_received
                      + (IF LenOf(serial_rx) > 0 THEN 1 ELSE 0)
                /\ CleanPayload(PayloadOf(serial_rx)) =>
                      packet_errors' = packet_errors]_vars

\* the stream was one spurious byte and one SET_PIXEL packet
C11_Witness ==
    /\ sent = 3
    /\ serial_rx = <<>>
    /\ framing = "dispatched"
    /\ packet_errors = 1
    /\ packets_received = 1
    /\ uart_buffer = <<CMD_SET_PIXEL, 0, 0, 200, 201, 202>>
    /\ leds[0] = <<200, 201, 202>>

\* ---- C12
Drop(s, k) == SubSeq(s, k + 1, Len(s))

\* C12 as claimed: a packet abandoned on timeout costs exactly one error in
\* total: the timeout itself counts one, loop() counts no further error for
\* bytes of that packet still in the receive queue, and a well-formed
\* packet that follows them is the next thing dispatched.
C12_OneErrorPerAbandonedPacket ==
    [][LoopStep =>
          /\ (pc = "wait" /\ framing' = "timeout") => OnlyErrorCounted
          /\ (pc = "idle" /\ stale > 0) => packet_errors' = packet_errors
          /\ (pc = "idle" /\ WellFormed(Drop(serial_rx, stale))) =>
                /\ framing' = "dispatched"
                /\ uart_buffer' = PayloadOf(Drop(serial_rx, stale))]_vars

\* ---- C13
MaxLength == 1 + MAX_STRIPS * MAX_LEDS_PER_STRIP * 3

\* C13: when loop() reads a header whose little-endian LENGTH is above
\* 1 + MAX_STRIPS*MAX_LEDS_PER_STRIP*3 it counts one error, empties the
\* receive queue and leaves the dispatcher state and uart_buffer alone; a
\* LENGTH equal to that maximum is not rejected: the complete packet is
\* dispatched with all its payload bytes, an incomplete one is waited for.
C13_OversizedRejected ==
    [][(LoopStep /\ pc = "idle" /\ Len(serial_rx) >= 4
            /\ serial_rx[1] = PACKET_START) =>
          /\ LenOf(serial_rx) > MaxLength =>
                /\ OnlyErrorCounted
                /\ serial_rx' = <<>>
                /\ pc' = "idle"
                /\ UNCHANGED <<uart_buffer, serial_tx>>
          /\ LenOf(serial_rx) = MaxLength =>
                /\ payload_len' = MaxLength
                /\ IF WellFormed(serial_rx)
                   THEN /\ framing' = "dispatched"
                        /\ uart_buffer' = PayloadOf(serial_rx)
                        /\ Len(uart_buffer') = MaxLength
                        /\ packets_received' = packets_received + 1
                        /\ serial_rx' = AfterPacket(serial_rx)
                   ELSE packet_errors' = packet_errors
                            \/ framing' = "bad_end"]_vars

\* a largest frame was rendered, then a header one byte larger was refused
C13_Witness ==
    /\ framing = "bad_length"
    /\ payload_len = MaxLength + 1
    /\ serial_rx = <<>>
    /\ packet_errors = 1
    /\ frames_rendered = 1
    /\ Len(uart_buffer) = MaxLength

\* ---- C14
DefaultConfig == <<CMD_CONFIG, DEFAULT_STRIPS, 0, DEFAULT_LEDS_PER_STRIP>>
DefaultLayout ==
    /\ active_strips = DEFAULT_STRIPS
    /\ leds_per_strip = DEFAULT_LEDS_PER_STRIP

\* C14 as claimed: from boot under the default layout, CONFIG(default) is
\* acknowledged OK "changed"; a SET_ALL of exactly 1 + total_leds*3 bytes
\* then gives every active pixel the colour the frame carries for it (red
\* for an all-red frame) and adds 1 to frames_rendered; CONFIG(default)
\* again is acknowledged OK "unchanged" and leaves the buffer untouched.
C14_DefaultScenario ==
    [][/\ (packets_received = 0 /\ Dispatched(CMD_CONFIG)
              /\ uart_buffer' = DefaultConfig) =>
             serial_tx' = <<send_response(RESP_OK, "CONFIG_CHANGED")>>
       /\ (packets_received = 1 /\ uart_buffer = DefaultConfig
              /\ Dispatched(CMD_SET_ALL) /\ Len(uart_buffer') = Expected) =>
             /\ \A i \in 0 .. (total_leds - 1) :
                   leds'[Slot(i)] = <<uart_buffer'[2 + 3 * i],
                                      uart_buffer'[3 + 3 * i],
                                      uart_buffer'[4 + 3 * i]>>
             /\ frames_rendered' = frames_rendered + 1
       /\ (packets_received = 2 /\ frames_rendered = 1 /\ DefaultLayout
              /\ Dispatched(CMD_CONFIG) /\ uart_buffer' = DefaultConfig) =>
             /\ serial_tx' = <<send_response(RESP_OK, "CONFIG_OK")>>
             /\ leds' = leds]_vars

\* ---- C15
NewStrips(buf) == buf[2]
NewLen(buf) == buf[3] * 256 + buf[4]

\* C15: a valid CONFIG that shrinks the layout (fewer strips or fewer LEDs
\* per strip than before, as CONFIG(1,10) after CONFIG(8,140) and any
\* writes) sets total_leds to the new product and leaves every one of the
\* MAX_STRIPS*MAX_LEDS_PER_STRIP physical slots black, in the render buffer
\* and on the strips.
C15_ShrinkClears ==
    [][(Dispatched(CMD_CONFIG) /\ ValidConfig(uart_buffer')
            /\ (NewStrips(uart_buffer') < active_strips
                   \/ NewLen(uart_buffer') < leds_per_strip)) =>
          /\ total_leds' = NewStrips(uart_buffer') * NewLen(uart_buffer')
          /\ \A p \in 0 .. (MAX_STRIPS * MAX_LEDS_PER_STRIP - 1) :
                leds'[p] = Black /\ shown'[p] = Black]_vars

\* the default layout was filled by a frame, then shrunk to one pixel
C15_Witness ==
    /\ uart_buffer = <<CMD_CONFIG, 1, 0, 1>>
    /\ Said(RESP_OK, "CONFIG_CHANGED")
    /\ total_leds = 1
    /\ frames_rendered = 1
    /\ packets_received = 2
    /\ AllBlack(leds)

\* ---- C16
\* C16: a SET_ALL shorter than 1 + total_leds*3 (one byte short, or the
\* bare opcode) is answered by exactly one ERROR response SIZE_MISMATCH,
\* leaves the render buffer and the strips as they were, does not change
\* frames_rendered and adds exactly 1 to packet_errors.
C16_ShortSetAll ==
    [][(Dispatched(CMD_SET_ALL) /\ Len(uart_buffer') < 1 + total_leds * 3) =>
          /\ serial_tx' = <<send_response(RESP_ERROR, "SIZE_MISMATCH")>>
          /\ leds' = leds
          /\ shown' = shown
          /\ show_calls' = 0
          /\ frames_rendered' = frames_rendered
          /\ packet_errors' = packet_errors + 1]_vars

\* one byte short under the default layout, after a frame and a pixel write
\* that has not been shown
C16_Witness ==
    /\ IsCommand(uart_buffer, CMD_SET_ALL)
    /\ DefaultLayout
    /\ Len(uart_buffer) = total_leds * 3
    /\ Said(RESP_ERROR, "SIZE_MISMATCH")
    /\ packet_errors = 1
    /\ frames_rendered = 1
    /\ leds # shown

\* ---- C17
StartOf(buf) == buf[2] * 256 + buf[3]
CountOf(buf) == buf[4]
TripleOf(buf, k) == <<buf[5 + 3 * k], buf[6 + 3 * k], buf[7 + 3 * k]>>

\* C17: a SET_RANGE buffer of at least 4 + 3*count bytes with
\* start < total_leds writes exactly the logical pixels start ..
\* min(start + count, total_leds) - 1: pixel start + k gets the k-th triple
\* at its physical slot and every other slot keeps its colour; a buffer
\* shorter than 4 + 3*count, or with start >= total_leds, changes no pixel.
C17_SetRange ==
    [][Dispatched(CMD_SET_RANGE) =>
          LET b == uart_buffer'
          IN  IF Len(b) < 4 THEN leds' = leds
              ELSE IF Len(b) >= 4 + 3 * CountOf(b) /\ StartOf(b) < total_leds
              THEN LET last == IF StartOf(b) + CountOf(b) < total_leds
                               THEN StartOf(b) + CountOf(b) - 1
                               ELSE total_leds - 1
                       written == {Slot(i) : i \in StartOf(b) .. last}
                   IN  /\ \A i \in StartOf(b) .. last :
                             leds'[Slot(i)] = TripleOf(b, i - StartOf(b))
                       /\ \A p \in Phys \ written : leds'[p] = leds[p]
              ELSE leds' = leds]_vars

\* a range of two starting at the last logical pixel: only that pixel is
\* written, with the first triple
C17_Witness ==
    /\ IsCommand(uart_buffer, CMD_SET_RANGE)
    /\ Len(uart_buffer) = 10
    /\ CountOf(uart_buffer) = 2
    /\ StartOf(uart_buffer) = total_leds - 1
    /\ total_leds > 1
    /\ leds[LastSlot] = <<210, 211, 212>>
    /\ \A p \in Phys : leds[p] # <<220, 221, 222>>

\* ---- C18
\* opcodes with a case in the switch of the SPI dispatcher
SpiOpcodes ==
    {CMD_SET_PIXEL, CMD_SET_BRIGHTNESS, CMD_SHOW, CMD_CLEAR, CMD_SET_RANGE,
     CMD_SET_ALL, CMD_CONFIG, CMD_STATS, CMD_PING}
\* this step completed a transaction whose bytes went to process_command
SpiDispatched == spi'.packets_received = spi.packets_received + 1

\* C18 as claimed, for the synchronous-transaction variant: a command
\* buffer whose first byte is not a recognised opcode adds exactly 1 to the
\* error counter (zero_payload_packets is the only one this variant has)
\* and changes neither Configuration, render buffer nor brightness.
C18_UnknownCountedSpi ==
    [][(SpiDispatched /\ spi_rx_buffer'[1] \notin SpiOpcodes) =>
          /\ spi'.zero_payload_packets = spi.zero_payload_packets + 1
          /\ spi'.leds = spi.leds
          /\ spi'.global_brightness = spi.global_brightness
          /\ spi'.active_strips = spi.active_strips
          /\ spi'.leds_per_strip = spi.leds_per_strip
          /\ spi'.total_leds = spi.total_leds]_vars

\* ---- C19
\* C19: active_strips, leds_per_strip and total_leds change only in a step
\* that dispatches a CONFIG whose strip count and length are both in range,
\* and then to the values it carries; every other command, every rejected
\* CONFIG and every framing error leave the three fields as they were.
C19_ConfigOnlyByConfig ==
    [][<<active_strips, leds_per_strip, total_leds>>'
            # <<active_strips, leds_per_strip, total_leds>> =>
          /\ framing' = "dispatched"
          /\ Dispatched(CMD_CONFIG)
          /\ ValidConfig(uart_buffer')
          /\ active_strips' = NewStrips(uart_buffer')
          /\ leds_per_strip' = NewLen(uart_buffer')
          /\ total_leds' = NewStrips(uart_buffer') * NewLen(uart_buffer')]_vars

\* the layout set by a CONFIG survived a framing error and a rejected CONFIG
C19_Witness ==
    /\ active_strips = 1
    /\ leds_per_strip = 1
    /\ total_leds = 1
    /\ packet_errors = 1
    /\ config_commands_received = 2
    /\ uart_buffer = <<CMD_CONFIG, 0, 0, 1>>
    /\ Said(RESP_ERROR, "INVALID_STRIPS")

\* ---- C20
\* C20: no step of the host, of loop() or of the dispatcher decreases or
\* resets packets_received, frames_rendered, packet_errors,
\* config_commands_received, set_all_commands_received or
\* total_bytes_received (the counters stay below 2^32 here).
C20_CountersMonotone ==
    [][/\ packets_received' >= packets_received
       /\ frames_rendered' >= frames_rendered
       /\ packet_errors' >= packet_errors
       /\ config_commands_received' >= config_commands_received
       /\ set_all_commands_received' >= set_all_commands_received
       /\ total_bytes_received' >= total_bytes_received]_vars

\* every counter has moved: two framing errors, a frame and a CONFIG
C20_Witness ==
    /\ packets_received = 2
    /\ frames_rendered = 1
    /\ packet_errors = 2
    /\ config_commands_received = 1
    /\ set_all_commands_received = 1
    /\ total_bytes_received = MAX_PACKET_SIZE + 4
    /\ serial_rx = <<>>

\* ---- C21
\* the state the two dispatchers are compared on; the render buffers are
\* compared on the slots both variants have (SPI_MAX_STRIPS strips)
SameConfig ==
    /\ spi.active_strips = active_strips
    /\ spi.leds_per_strip = leds_per_strip
    /\ spi.total_leds = total_leds
SameBuffer == \A p \in SpiPhys : spi.leds[p] = leds[p]
SameState ==
    /\ SameConfig
    /\ SameBuffer
    /\ spi.global_brightness = global_brightness
    /\ spi.frames_rendered = frames_rendered
    /\ spi.set_all_commands_received = set_all_commands_received
    /\ spi.config_commands_received = config_commands_received
\* the commands of the claim: the eight opcodes, a CONFIG only with a strip
\* count that is not above either variant's maximum
InBothVariants(buf) ==
    /\ buf[1] \in {CMD_SET_PIXEL, CMD_SET_BRIGHTNESS, CMD_SHOW, CMD_CLEAR,
                    CMD_SET_RANGE, CMD_SET_ALL, CMD_CONFIG, CMD_PING}
    /\ (buf[1] = CMD_CONFIG /\ Len(buf) >= 2) =>
          (buf[2] <= SPI_MAX_STRIPS /\ buf[2] <= MAX_STRIPS)

\* C21: when the framed-stream dispatcher and the SPI dispatcher agree on
\* Configuration, render buffer, brightness, frames_rendered,
\* set_all_commands_received and config_commands_received, and both are
\* handed the same command buffer (SET_PIXEL, SET_BRIGHTNESS, SHOW, CLEAR,
\* SET_RANGE, SET_ALL, CONFIG with a strip count both accept, PING), they
\* agree on all of these afterwards; hence after every sequence of such
\* buffers.
C21_SameSemantics ==
    [][(SameState /\ Dispatched(uart_buffer'[1]) /\ SpiDispatched
            /\ InBothVariants(uart_buffer')) => SameState']_vars

\* both boards were configured 7 x 1, took a frame and then a pixel write
\* to the last strip
C21_Witness ==
    /\ SameState
    /\ packets_received = 3
    /\ spi.packets_received = 3
    /\ active_strips = SPI_MAX_STRIPS
    /\ leds_per_strip = 1
    /\ frames_rendered = 1
    /\ uart_buffer = <<CMD_SET_PIXEL, 0, SPI_MAX_STRIPS - 1, 200, 201, 202>>
    /\ spi.leds[(SPI_MAX_STRIPS - 1) * MAX_LEDS_PER_STRIP] = <<200, 201, 202>>
    /\ spi.leds[0] # Black

\* ---- C22
\* C22 as claimed, for the polled slave: processCommand is never called more
\* often than the master has completed transactions, and once loop() has
\* seen chip select high again after a transaction, processCommand has been
\* called exactly once for every transaction completed so far.
C22_OnePerTransaction ==
    /\ pico.calls <= bus.completed
    /\ pico.synced => pico.calls = bus.completed

\* ---- C24
\* C24 as claimed: under every interleaving of the master and loop(), the
\* master never clocks a byte while the TX FIFO is empty.
C24_TxNeverEmpty == ~bus.starved

\* ---- C28
\* this step called processCommand on a buffer with opcode op
PicoDispatched(op) ==
    /\ pico'.calls = pico.calls + 1
    /\ Len(pico'.cmd_buffer) >= 1
    /\ pico'.cmd_buffer[1] = op

\* C28 as claimed, for the RP2040 variant: a SET_ALL that passes the size
\* check is shown by the same call of processCommand (the strips then carry
\* the updated buffer); SET_PIXEL and SET_RANGE show nothing.
C28_ImplicitRender ==
    [][/\ (PicoDispatched(CMD_SET_ALL)
              /\ Len(pico'.cmd_buffer) >= 1 + (TOTAL_LEDS * 3)) =>
             (pico'.show_calls >= 1 /\ pico'.shown = pico'.pixels)
       /\ (PicoDispatched(CMD_SET_PIXEL) \/ PicoDispatched(CMD_SET_RANGE)) =>
             (pico'.show_calls = 0 /\ pico'.shown = pico.shown)]_vars

\* ---- C23
\* Commands of exactly the length their opcode declares, in the state st:
\* one byte for PING, SHOW, CLEAR, STATS and an unknown opcode, 2 for
\* SET_BRIGHTNESS, 6 for SET_PIXEL, 4 + count * 3 for SET_RANGE,
\* 1 + total_leds * 3 for SET_ALL, 4 for CONFIG.
SpiDeclared(st) ==
    {<<CMD_PING>>, <<CMD_SHOW>>, <<CMD_CLEAR>>, <<CMD_STATS>>, <<9>>,
     <<CMD_SET_BRIGHTNESS, 255>>}
    \cup {<<CMD_SET_PIXEL, Hi(pixel), Lo(pixel), 200, 201, 202>> :
            pixel \in {0, st.total_leds - 1, st.total_leds}}
    \cup {<<CMD_SET_RANGE, Hi(start), Lo(start), 2, 210, 211, 212, 220, 221, 222>> :
            start \in {0, st.total_leds - 1, st.total_leds}}
    \cup {Frame(CMD_SET_ALL, 1 + st.total_leds * 3, 10)}
    \cup {data \in SpiConfigInputs : Len(data) = 4}

\* what the master may clock after the command in the same transaction
SpiTrailing == {<<0>>, <<255, 1>>}

\* Configuration, render buffer, brightness and frames_rendered
SpiVisible(st) ==
    <<st.active_strips, st.leds_per_strip, st.total_leds, st.leds,
      st.global_brightness, st.frames_rendered>>

\* C23: in every reachable state of the SPI firmware, a transaction that
\* carries a command followed by trailing bytes leaves the same
\* Configuration, render buffer, brightness and frames_rendered as the
\* transaction that carries the command alone (so any two transactions that
\* differ only in the trailing region leave the same).
C23_TrailingIgnored ==
    \A data \in SpiDeclared(spi) : \A tail \in SpiTrailing :
        SpiVisible(SpiProcessCommand(spi, data \o tail))
            = SpiVisible(SpiProcessCommand(spi, data))

\* a SET_ALL transaction one byte longer than the frame was rendered
C23_Witness ==
    /\ Len(spi_rx_buffer) = 2 + spi.total_leds * 3
    /\ spi_rx_buffer[1] = CMD_SET_ALL
    /\ spi.show_calls = 1
    /\ spi.frames_rendered >= 1
    /\ spi.leds[0] = <<U8(10 + 2), U8(10 + 3), U8(10 + 4)>>

\* ---- C27
\* every physical slot of strips 0 .. strips-1 of buf is black
StripsBlack(buf, strips) ==
    \A strip \in 0 .. (strips - 1) :
        \A offset \in 0 .. (MAX_LEDS_PER_STRIP - 1) :
            buf[strip * MAX_LEDS_PER_STRIP + offset] = Black

\* C27: a CLEAR command leaves every physical slot of every active strip
\* black (so every slot a logical index maps to is black), issues one
\* hardware show, and leaves Configuration, brightness and frames_rendered
\* as they were; in the framed-stream dispatcher and in the SPI dispatcher.
C27_Clear ==
    [][/\ Dispatched(CMD_CLEAR) =>
             /\ StripsBlack(leds', active_strips)
             /\ \A i \in 0 .. (total_leds - 1) : leds'[Slot(i)] = Black
             /\ show_calls' = 1
             /\ shown' = leds'
             /\ UNCHANGED <<cfg, global_brightness, frames_rendered>>
       /\ (SpiDispatched /\ IsCommand(spi_rx_buffer', CMD_CLEAR)) =>
             /\ StripsBlack(spi'.leds, spi.active_strips)
             /\ \A i \in 0 .. (spi.total_leds - 1) :
                   spi'.leds[SpiLogicalToPhysical(spi, i)] = Black
             /\ spi'.show_calls = 1
             /\ SpiVisible(spi') = SpiVisible([spi EXCEPT !.leds = spi'.leds])]_vars

\* both boards rendered one frame and were then cleared
C27_Witness ==
    /\ uart_buffer = <<CMD_CLEAR>>
    /\ spi_rx_buffer = <<CMD_CLEAR>>
    /\ packets_received = 2
    /\ frames_rendered = 1
    /\ spi.frames_rendered = 1
    /\ show_calls = 1
    /\ spi.show_calls = 1
    /\ StripsBlack(leds, active_strips)
    /\ StripsBlack(spi.leds, spi.active_strips)
    /\ AllBlack(shown)

\* ---- C30
\* 1 when buf is a SET_ALL that passes the size check for total pixels
FrameCounted(buf, total) ==
    IF IsCommand(buf, CMD_SET_ALL) /\ Len(buf) >= 1 + total * 3 THEN 1 ELSE 0

\* C30: every dispatched command adds to frames_rendered exactly 1 when it
\* is a SET_ALL that passes the size check and 0 otherwise (SHOW, CLEAR,
\* CONFIG, SET_PIXEL, SET_RANGE, SET_BRIGHTNESS, PING, STATS, ECHO, unknown
\* opcodes, SET_ALL that is too short); in both dispatchers.
C30_FramesCounted ==
    [][/\ (packets_received' = packets_received + 1) =>
             frames_rendered' =
                 frames_rendered + FrameCounted(uart_buffer', total_leds)
       /\ SpiDispatched =>
             spi'.frames_rendered =
                 spi.frames_rendered + FrameCounted(spi_rx_buffer', spi.total_leds)]_vars

\* two SET_ALL arrived, the framed-stream board rendered one and rejected
\* the other, then a SHOW was issued
C30_Witness ==
    /\ uart_buffer = <<CMD_SHOW>>
    /\ spi_rx_buffer = <<CMD_SHOW>>
    /\ packets_received = 3
    /\ set_all_commands_received = 2
    /\ spi.set_all_commands_received = 2
    /\ frames_rendered = 1
    /\ spi.frames_rendered >= 1
    /\ show_calls = 1

\* ---- C29
\* Serial.print(message): the bytes of the text
Ascii(message) ==
    CASE message = "PONG" -> <<80, 79, 78, 71>>
      [] message = "FRAME_OK" -> <<70, 82, 65, 77, 69, 95, 79, 75>>
      [] message = "SIZE_MISMATCH" ->
            <<83, 73, 90, 69, 95, 77, 73, 83, 77, 65, 84, 67, 72>>
      [] message = "CONFIG_TOO_SHORT" ->
            <<67, 79, 78, 70, 73, 71, 95, 84, 79, 79, 95, 83, 72, 79, 82, 84>>
      [] message = "INVALID_STRIPS" ->
            <<73, 78, 86, 65, 76, 73, 68, 95, 83, 84, 82, 73, 80, 83>>
      [] message = "INVALID_LENGTH" ->
            <<73, 78, 86, 65, 76, 73, 68, 95, 76, 69, 78, 71, 84, 72>>
      [] message = "CONFIG_CHANGED" ->
            <<67, 79, 78, 70, 73, 71, 95, 67, 72, 65, 78, 71, 69, 68>>
      [] message = "CONFIG_OK" -> <<67, 79, 78, 70, 73, 71, 95, 79, 75>>
      [] OTHER -> <<>>

\* what follows the response code: the text, or the bytes CMD_ECHO got
Body(resp) == IF resp.echo # <<>> THEN resp.echo ELSE Ascii(resp.msg)

\* length field that counts the message only
Wire_short(resp) ==
    LET body == Body(resp)
        response_len == U16(Len(body))
    IN  <<PACKET_START, response_len % 256, (response_len \div 256) % 256,
          resp.code>> \o body \o <<PACKET_END>>

\* The bytes send_response (and the inline writes of CMD_ECHO) put on Serial:
\* start, uint16_t payload_len = 1 + strlen(message) low byte first, code,
\* message, end.
Wire(resp) ==
    LET body == Body(resp)
        response_len == U16(1 + Len(body))
    IN  <<PACKET_START, response_len % 256, (response_len \div 256) % 256,
          resp.code>> \o body \o <<PACKET_END>>

\* Debug text shares the channel: the first bytes of the line printed for
\* each of the first 20 packets, before any response.
LogLine == <<240, 159, 148, 141, 32, 80, 107, 116, 35>>

\* The framing of commands, read by the host: bytes that are not the start
\* marker are skipped; a length above max is rejected; the byte after the
\* payload must be the end marker.
RECURSIVE SkipToStart(_)
SkipToStart(s) ==
    IF s = <<>> \/ s[1] = PACKET_START THEN s ELSE SkipToStart(Resync(s))

Framed(s, max) ==
    /\ Len(s) >= 4
    /\ s[1] = PACKET_START
    /\ LenOf(s) <= max
    /\ Len(s) >= LenOf(s) + 4
    /\ s[LenOf(s) + 4] = PACKET_END

\* <<code, message bytes>> of the first packet in s, <<>> when it is rejected
HostParse(s, max) ==
    LET t == SkipToStart(s)
    IN  IF Framed(t, max) /\ LenOf(t) >= 1
        THEN <<t[4], SubSeq(t, 5, LenOf(t) + 3)>>
        ELSE <<>>

\* [0xAA][LEN][RESPONSE_CODE][message bytes][0x55], LEN = 1 + message bytes
ExactFrame(resp) ==
    LET w == Wire(resp)
        body == Body(resp)
    IN  /\ Len(w) = Len(body) + 5
        /\ w[1] = PACKET_START
        /\ LenOf(w) = 1 + Len(body)
        /\ w[4] = resp.code
        /\ resp.code \in {RESP_OK, RESP_ERROR, RESP_STATUS}
        /\ SubSeq(w, 5, Len(w) - 1) = body
        /\ w[Len(w)] = PACKET_END

\* C29 as claimed: every response of a dispatch is written as
\* [0xAA][LEN][RESPONSE_CODE][message][0x55] with LEN = 1 + message bytes and
\* a code in {0, 1, 2}, and a host that parses the channel with the framing
\* of commands (length limit MAX_PACKET_SIZE) recovers code and message.
C29_HostRecovers ==
    \A i \in 1 .. Len(serial_tx) :
        /\ ExactFrame(serial_tx[i])
        /\ HostParse(LogLine \o Wire(serial_tx[i]), MAX_PACKET_SIZE)
              = <<serial_tx[i].code, Body(serial_tx[i])>>

\* C29, amended: every response is written as
\* [0xAA][LEN][RESPONSE_CODE][message][0x55] with LEN = 1 + message bytes and
\* a code in {0, 1, 2}; a host that skips to the start marker and accepts
\* LEN up to MAX_PACKET_SIZE + 1 recovers code and message of every
\* response; with the length limit of commands it recovers every response
\* but the echo of a command of MAX_PACKET_SIZE bytes.
C29_ResponseFraming ==
    \A i \in 1 .. Len(serial_tx) :
        LET resp == serial_tx[i]
            channel == LogLine \o Wire(resp) \o LogLine
        IN  /\ ExactFrame(resp)
            /\ HostParse(channel, MAX_PACKET_SIZE + 1) = <<resp.code, Body(resp)>>
            /\ (Len(Body(resp)) < MAX_PACKET_SIZE) =>
                  HostParse(channel, MAX_PACKET_SIZE) = <<resp.code, Body(resp)>>
            /\ (Len(Body(resp)) = MAX_PACKET_SIZE) =>
                  HostParse(channel, MAX_PACKET_SIZE) = <<>>

\* the largest command was echoed
C29_Witness ==
    /\ uart_buffer = Frame(CMD_ECHO, MAX_PACKET_SIZE, 10)
    /\ Len(serial_tx) = 1
    /\ serial_tx[1].code = RESP_OK
    /\ LenOf(Wire(serial_tx[1])) = MAX_PACKET_SIZE + 1

\* ---- C26
\* this step printed a statistics line
Reported == stats'.seq # stats.seq
\* the rate a line shows for numerator n over dt: none when either is 0
Shown(n, dt) == IF n > 0 /\ dt > 0 THEN <<n, dt>> ELSE <<0, 0>>

\* C26 as claimed: a statistics line is printed only when more than
\* STATS_PERIOD has elapsed since the previous one (since start for the
\* first); every line after the first shows frames_rendered minus its value
\* at the previous line and total_bytes_received minus its value at the
\* previous line, over the time since the previous line; printing changes
\* no counter, Configuration or pixel and takes no time.
C26_Windowed ==
    [][Reported =>
          LET elapsed == Millis(stats.now_ms - stats.prev_time)
          IN  /\ elapsed > STATS_PERIOD
              /\ stats.had_report =>
                    /\ Shown(stats'.frames_delta, stats'.frames_dt)
                          = Shown(frames_rendered - stats.prev_frames, elapsed)
                    /\ Shown(stats'.bytes_delta, stats'.bytes_dt)
                          = Shown(total_bytes_received - stats.prev_bytes, elapsed)
              /\ UNCHANGED <<dvars, fvars, svars>>
              /\ stats'.now_ms = stats.now_ms]_vars

\* ---- C25
\* the host has nothing more to send
HostStalled == sent = MaxStream

\* C25: the wait loop of loop() always ends (the device returns to marker
\* scanning, where the next iteration serves the statistics reporter and
\* the packets that follow); a packet is abandoned only when more than
\* WAIT_TIMEOUT ms have passed in the wait loop; and when the host stalls
\* with the packet incomplete, the iteration ends by abandoning it.
C25_BoundedWait ==
    /\ [](pc = "wait" => <>(pc = "idle"))
    /\ [][(pc = "wait" /\ pc' = "idle" /\ framing' = "timeout")
              => waited > WAIT_TIMEOUT]_vars
    /\ []((pc = "wait" /\ HostStalled /\ MustWait(Len(serial_rx), payload_len))
             => <>(pc = "idle" /\ framing = "timeout"))

\* a header for a one-byte payload arrived with one more byte, the host
\* stalled, and the packet was abandoned
C25_Witness ==
    /\ pc = "idle"
    /\ framing = "timeout"
    /\ header = <<PACKET_START, 1, 0>>
    /\ HostStalled
    /\ packet_errors >= 1
    /\ Len(serial_rx) = 1

\* ---- C31
\* any command was dispatched by this step
DispatchedAny == packets_received' = packets_received + 1

\* C31: the brightness is 50 at boot; a SET_BRIGHTNESS with at least one
\* payload byte sets it to that byte and every other dispatched command
\* (SET_BRIGHTNESS without payload, CONFIG changed or not, CLEAR, SET_ALL,
\* ...) leaves it as it is, so it always is the byte of the most recent
\* SET_BRIGHTNESS that had one; SET_BRIGHTNESS changes no pixel and no
\* Configuration field.
C31_BrightnessOnlyBySetBrightness ==
    /\ global_brightness = 50
    /\ [][/\ DispatchedAny =>
                global_brightness' =
                    IF IsCommand(uart_buffer', CMD_SET_BRIGHTNESS)
                          /\ Len(uart_buffer') >= 2
                    THEN uart_buffer'[2]
                    ELSE global_brightness
          /\ Dispatched(CMD_SET_BRIGHTNESS) => UNCHANGED <<leds, shown, cfg>>]_vars

\* after a layout change to one strip and one other command the
\* brightness was set to 0
C31_Witness ==
    /\ uart_buffer = <<CMD_SET_BRIGHTNESS, 0>>
    /\ global_brightness = 0
    /\ packets_received = 3
    /\ config_commands_received = 1
    /\ active_strips = 1

\* ---- C32
\* C32: a PING inverts the status LED, in the framed-stream variant writes
\* exactly one response, OK with message PONG, and changes no pixel, no
\* Configuration field, not the brightness and not the error counter; the
\* SPI variant inverts its status LED and likewise changes none of these.
C32_Ping ==
    [][/\ Dispatched(CMD_PING) =>
             /\ status_led' = ~status_led
             /\ serial_tx' = <<send_response(RESP_OK, "PONG")>>
             /\ UNCHANGED <<leds, shown, cfg, global_brightness, packet_errors>>
       /\ (SpiDispatched /\ IsCommand(spi_rx_buffer', CMD_PING)) =>
             /\ spi'.status_led = ~spi.status_led
             /\ spi'.leds = spi.leds
             /\ spi'.shown = spi.shown
             /\ spi'.active_strips = spi.active_strips
             /\ spi'.leds_per_strip = spi.leds_per_strip
             /\ spi'.total_leds = spi.total_leds
             /\ spi'.global_brightness = spi.global_brightness]_vars

\* two PINGs in a row: the status LED is back where it was at boot
C32_Witness ==
    /\ uart_buffer = <<CMD_PING>>
    /\ packets_received = 2
    /\ total_bytes_received = 2
    /\ status_led = FALSE
    /\ spi.status_led = FALSE
    /\ Said(RESP_OK, "PONG")

\* ---- C33
\* C33: a dispatched command buffer that begins with CMD_ECHO produces
\* exactly one response; on the wire its length field is 1 + the length of
\* the buffer, its code is OK and the bytes between code and end marker are
\* the buffer itself, opcode included, so the host reads back what it sent;
\* render buffer, strips and Configuration are unchanged.
C33_EchoRoundTrip ==
    [][Dispatched(CMD_ECHO) =>
          /\ Len(serial_tx') = 1
          /\ LET w == Wire(serial_tx'[1])
             IN  /\ LenOf(w) = 1 + Len(uart_buffer')
                 /\ Len(w) = Len(uart_buffer') + 5
                 /\ w[4] = RESP_OK
                 /\ SubSeq(w, 5, Len(w) - 1) = uart_buffer'
                 /\ HostParse(w, MAX_PACKET_SIZE + 1) = <<RESP_OK, uart_buffer'>>
          /\ UNCHANGED <<leds, shown, cfg>>]_vars

\* a three-byte echo request was answered while a frame was on the strips
C33_Witness ==
    /\ uart_buffer = <<CMD_ECHO, 1, 2>>
    /\ Len(serial_tx) = 1
    /\ Wire(serial_tx[1]) =
          <<PACKET_START, 4, 0, RESP_OK, CMD_ECHO, 1, 2, PACKET_END>>
    /\ frames_rendered = 1
    /\ leds[0] # Black

\* ------------------------------------ AckSpec: a longer run of frames
\* The dispatcher of Spec, driven by frames, short frames, layout changes
\* and SHOW only, for as many packets as it takes to pass the third
\* accepted frame (part_003:225-267).
MaxFrames == 5

AckDispatch(data) ==
    /\ packets_received < MaxFrames
    /\ uart_buffer' = data
    /\ payload_len' = Len(data)
    /\ framing' = "dispatched"
    /\ process_command(data)
    /\ UNCHANGED <<serial_rx, header, pc, sent, stale, waited, mvars, svars,
                   ovars>>

AckSetAll ==
    \E len \in {1, total_leds * 3, 1 + total_leds * 3} :
        \E seed \in Seeds : AckDispatch(Frame(CMD_SET_ALL, len, seed))

AckConfig ==
    \E data \in {<<CMD_CONFIG, 1, 0, 1>>,
                 <<CMD_CONFIG, DEFAULT_STRIPS, 0, DEFAULT_LEDS_PER_STRIP>>} :
        AckDispatch(data)

AckShow == AckDispatch(<<CMD_SHOW>>)

AckNext ==
    \/ AckSetAll
    \/ AckConfig
    \/ AckShow

AckSpec == Init /\ [][AckNext]_vars

\* ---- C34
\* C34: a SET_ALL shorter than 1 + total_leds*3 is always answered with the
\* error SIZE_MISMATCH and renders nothing; an accepted SET_ALL increments
\* frames_rendered and is answered with OK "FRAME_OK" exactly when the
\* incremented counter is at most 3; from the fourth accepted frame on it
\* writes no response at all.
C34_FrameAcks ==
    [][Dispatched(CMD_SET_ALL) =>
          IF Len(uart_buffer') < 1 + total_leds * 3
          THEN /\ serial_tx' = <<send_response(RESP_ERROR, "SIZE_MISMATCH")>>
               /\ frames_rendered' = frames_rendered
          ELSE /\ frames_rendered' = frames_rendered + 1
               /\ (serial_tx' = <<send_response(RESP_OK, "FRAME_OK")>>)
                      <=> (frames_rendered' <= 3)
               /\ (frames_rendered' > 3) => (serial_tx' = <<>>)]_vars

\* the fourth accepted frame has been rendered and nothing was answered,
\* after a short frame before it had been refused
C34_Witness ==
    /\ IsCommand(uart_buffer, CMD_SET_ALL)
    /\ frames_rendered = 4
    /\ set_all_commands_received = 5
    /\ packet_errors = 1
    /\ serial_tx = <<>>
    /\ shown = leds

\* --------------------------------- SafeSpec: buffers and their indices
\* One board runs one firmware.  Either the framed-stream firmware receives
\* bytes and whole packets (well-formed packets of every opcode, with
\* payloads that are too short, out of range or as long as allowed, and a
\* complete packet that is one byte longer than MAX_PACKET_SIZE), or the
\* RP2040 firmware receives one transaction that is longer than its
\* command buffer.
SafeInputs ==
    {<<CMD_SET_PIXEL, 0, 0, 200, 201, 202>>,
     <<CMD_SET_PIXEL, 255, 255, 200, 201, 202>>,
     <<CMD_SET_PIXEL, 0, 0, 200, 201>>,
     <<CMD_SET_BRIGHTNESS, 255>>,
     <<CMD_SET_BRIGHTNESS>>,
     <<CMD_SHOW>>,
     <<CMD_CLEAR>>,
     <<CMD_SET_RANGE, 0, 0, 2, 210, 211, 212, 220, 221, 222>>,
     <<CMD_SET_RANGE, 0, 1, 255, 210, 211, 212>>,
     <<CMD_SET_RANGE, 0, 0, 2, 210, 211, 212, 220, 221>>,
     <<CMD_SET_RANGE, 0, 0>>,
     Frame(CMD_SET_RANGE, MAX_PACKET_SIZE, 0),
     Frame(CMD_SET_ALL, MAX_PACKET_SIZE, 10),
     Frame(CMD_SET_ALL, MAX_PACKET_SIZE - 1, 10),
     Frame(CMD_SET_ALL, 4, 10),
     <<CMD_CONFIG, 1, 0, 1, 1>>,
     <<CMD_CONFIG, MAX_STRIPS, 0, MAX_LEDS_PER_STRIP>>,
     <<CMD_CONFIG, 1, 0>>,
     Frame(CMD_ECHO, MAX_PACKET_SIZE, 10),
     <<CMD_PING>>,
     <<8>>}

\* a complete packet with one payload byte more than the buffer holds
TooLong == Packet(Frame(CMD_SHOW, MAX_PACKET_SIZE + 1, 10))

SafePacket ==
    \E t \in {Packet(data) : data \in SafeInputs} \cup {TooLong} :
        /\ sent + 3 <= MaxStream
        /\ serial_rx' = serial_rx \o t
        /\ sent' = sent + 3
        /\ UNCHANGED <<dvars, header, uart_buffer, payload_len, pc, framing,
                       stale, waited, mvars, svars, ovars>>

\* CMD_BUFFER_SIZE + 2 bytes in one transaction
LongMessage == [k \in 1 .. (CMD_BUFFER_SIZE + 2) |-> CMD_SET_BRIGHTNESS]

MasterSelectLong ==
    /\ pico.ready
    /\ ~bus.cs_low
    /\ bus.completed < 1
    /\ bus' = [bus EXCEPT !.cs_low = TRUE, !.out = LongMessage,
                          !.clocked = <<>>]
    /\ pico' = [pico EXCEPT !.synced = FALSE]
    /\ UNCHANGED <<dvars, fvars, mvars, svars, stats>>

\* the other firmware has not left its boot state
FramedBoard == InitPico
PolledBoard == InitDispatcher /\ InitFraming

SafeNext ==
    \/ FramedBoard /\ SafePacket
    \/ FramedBoard /\ HostByte
    \/ FramedBoard /\ LoopBadStart
    \/ FramedBoard /\ LoopBadLength
    \/ FramedBoard /\ LoopPacket
    \/ FramedBoard /\ LoopWait
    \/ FramedBoard /\ LoopSpin
    \/ FramedBoard /\ LoopWaitDone
    \/ FramedBoard /\ LoopTimeout
    \/ PolledBoard /\ MasterSelectLong
    \/ PolledBoard /\ MasterClock
    \/ PolledBoard /\ MasterRelease
    \/ PolledBoard /\ PicoFill
    \/ PolledBoard /\ PicoSample
    \/ PolledBoard /\ PicoDrain

SafeSpec == Init /\ [][SafeNext]_vars

\* Indices of data[] that process_command reads for the buffer `data` of
\* `length` bytes: the opcode, the start-up hex dump of at most 32 bytes,
\* and the reads of the case taken, each behind the length checks of that
\* case (part_003:108-318).
CommandReads(data) ==
    LET length == Len(data)
        cmd == B(data, 0)
        dump == 0 .. ((IF length < 32 THEN length ELSE 32) - 1)
        start == BE16(data, 1)
        count == B(data, 3)
        expected == 4 + count * 3
        clipped == IF start + count > total_leds
                   THEN U8(total_leds - start) ELSE count
        case ==
          CASE cmd = CMD_ECHO -> 0 .. (length - 1)
            [] cmd = CMD_SET_PIXEL ->
                 IF length < 6 THEN {} ELSE 1 .. 5
            [] cmd = CMD_SET_BRIGHTNESS ->
                 IF length < 2 THEN {} ELSE {1}
            [] cmd = CMD_SET_RANGE ->
                 IF length < 4 THEN {}
                 ELSE IF start >= total_leds THEN {1, 2}
                 ELSE IF length < expected THEN {1, 2, 3}
                 ELSE {1, 2, 3} \cup
                      {4 + i * 3 + k : i \in 0 .. (clipped - 1), k \in 0 .. 2}
            [] cmd = CMD_SET_ALL ->
                 IF SetAllTooShort(length) THEN {}
                 ELSE {1, 2, 3} \cup
                      {1 + logical * 3 + k :
                           logical \in 0 .. (total_leds - 1), k \in 0 .. 2}
            [] cmd = CMD_CONFIG ->
                 IF ConfigTooShort(length) THEN {}
                 ELSE IF length >= 5 THEN {1, 2, 3, 4} ELSE {1, 2, 3}
            [] OTHER -> {}
    IN  {0} \cup dump \cup case

\* Indices of leds[] that process_command writes for the buffer `data`
\* (part_003:164-318): one mapped pixel, the mapped pixels of a range or of
\* a frame with the unused tail of each active strip, every slot of the
\* active strips (CLEAR), or all MAX_TOTAL_LEDS slots (CONFIG).
CommandWrites(data) ==
    LET length == Len(data)
        cmd == B(data, 0)
        start == BE16(data, 1)
        count == B(data, 3)
        expected == 4 + count * 3
        clipped == IF start + count > total_leds
                   THEN U8(total_leds - start) ELSE count
    IN  CASE cmd = CMD_SET_PIXEL ->
               IF length >= 6 /\ SetPixelInRange(BE16(data, 1))
               THEN {logical_to_physical(BE16(data, 1))} ELSE {}
          [] cmd = CMD_CLEAR ->
               {strip * MAX_LEDS_PER_STRIP + offset :
                    strip \in 0 .. (active_strips - 1),
                    offset \in 0 .. (MAX_LEDS_PER_STRIP - 1)}
          [] cmd = CMD_SET_RANGE ->
               IF length < 4 \/ start >= total_leds \/ length < expected
               THEN {}
               ELSE {logical_to_physical(U16(start + i)) :
                         i \in {j \in 0 .. (clipped - 1) :
                                    U16(start + j) < total_leds}}
          [] cmd = CMD_SET_ALL ->
               IF SetAllTooShort(length) THEN {}
               ELSE {logical_to_physical(logical) :
                         logical \in 0 .. (total_leds - 1)}
                    \cup {strip * MAX_LEDS_PER_STRIP + offset :
                              strip \in 0 .. (active_strips - 1),
                              offset \in leds_per_strip ..
                                         (MAX_LEDS_PER_STRIP - 1)}
          [] cmd = CMD_CONFIG ->
               IF ConfigTooShort(length)
                  \/ ConfigInvalidStrips(B(data, 1))
                  \/ ConfigInvalidLength(BE16(data, 2))
                  \/ ~ConfigChanged(B(data, 1), BE16(data, 2))
               THEN {}
               ELSE 0 .. (MAX_TOTAL_LEDS - 1)
          [] OTHER -> {}

\* ---- C35
\* C35: whatever bytes arrive, (a) the payload stored into uart_buffer is
\* never longer than MAX_PACKET_SIZE, (b) every pixel slot a dispatched
\* command writes lies below MAX_STRIPS * MAX_LEDS_PER_STRIP, (c) every
\* index of the command buffer a dispatched command reads lies below the
\* buffer's length, and (d) the RP2040 command buffer never holds more than
\* CMD_BUFFER_SIZE bytes, also when a transaction is longer than that.
C35_MemorySafety ==
    /\ [](Len(uart_buffer) <= MAX_PACKET_SIZE)
    /\ [](Len(pico.cmd_buffer) <= CMD_BUFFER_SIZE)
    /\ [][DispatchedAny =>
            /\ \A i \in CommandReads(uart_buffer') : i < Len(uart_buffer')
            /\ \A p \in CommandWrites(uart_buffer') :
                   p >= 0 /\ p < MAX_STRIPS * MAX_LEDS_PER_STRIP]_vars

\* the largest layout was configured, then a frame of exactly
\* MAX_PACKET_SIZE bytes stored and dispatched: its last byte was read and
\* the last slot of the pixel array written
C35_Witness ==
    /\ uart_buffer = Frame(CMD_SET_ALL, MAX_PACKET_SIZE, 10)
    /\ Len(uart_buffer) = MAX_PACKET_SIZE
    /\ framing = "dispatched"
    /\ frames_rendered = 1
    /\ config_commands_received = 1
    /\ leds_per_strip = MAX_LEDS_PER_STRIP
    /\ (MAX_PACKET_SIZE - 1) \in CommandReads(uart_buffer)
    /\ leds[MAX_TOTAL_LEDS - 1] = <<U8(10 + MAX_PACKET_SIZE - 2),
                                    U8(10 + MAX_PACKET_SIZE - 1),
                                    U8(10 + MAX_PACKET_SIZE)>>

\* ---- C36
\* s is a concatenation of complete well-formed packets
RECURSIVE ValidStream(_)
ValidStream(s) == s = <<>> \/ (WellFormed(s) /\ ValidStream(AfterPacket(s)))
\* what process_command itself adds to packet_errors for payload d: one for
\* a SET_ALL shorter than 1 + total_leds*3 and one for an opcode without a
\* case in the switch, nothing otherwise
DispatcherErrors(d) ==
    IF Len(d) = 0 THEN 0
    ELSE IF d[1] = CMD_SET_ALL THEN (IF SetAllTooShort(Len(d)) THEN 1 ELSE 0)
    ELSE IF d[1] \in {CMD_SET_PIXEL, CMD_SET_BRIGHTNESS, CMD_SHOW, CMD_CLEAR,
                      CMD_SET_RANGE, CMD_CONFIG, CMD_ECHO, CMD_PING} THEN 0
    ELSE 1

\* C36: when the receive queue is a concatenation of complete well-formed
\* packets, one iteration of loop() takes exactly the first packet off the
\* queue (LENGTH + 4 bytes), hands exactly its payload to process_command
\* once, leaves the packets behind it untouched and in order for the next
\* iterations, and the framing counts no error (packet_errors grows only by
\* what the dispatcher counts for the payload).
C36_InOrderDispatch ==
    [][(LoopStep /\ pc = "idle" /\ serial_rx # <<>> /\ ValidStream(serial_rx))
          => /\ framing' = "dispatched"
             /\ pc' = "idle"
             /\ uart_buffer' = PayloadOf(serial_rx)
             /\ serial_rx' = AfterPacket(serial_rx)
             /\ Len(serial_rx') = Len(serial_rx) - (LenOf(serial_rx) + 4)
             /\ ValidStream(serial_rx')
             /\ packets_received' = packets_received
                   + (IF LenOf(serial_rx) > 0 THEN 1 ELSE 0)
             /\ total_bytes_received' =
                   total_bytes_received + LenOf(serial_rx)
             /\ packet_errors' = packet_errors
                   + DispatcherErrors(PayloadOf(serial_rx))]_vars

\* two packets were dispatched in the order sent: the layout change first,
\* then the four-byte frame, which only that layout accepts
C36_Witness ==
    /\ sent = MaxStream
    /\ serial_rx = <<>>
    /\ framing = "dispatched"
    /\ uart_buffer = Frame(CMD_SET_ALL, 4, 10)
    /\ packets_received = 2
    /\ total_bytes_received = 9
    /\ active_strips = 1
    /\ leds_per_strip = 1
    /\ frames_rendered = 1
    /\ packet_errors = 0
    /\ leds[0] = <<12, 13, 14>>

\* C36 as claimed: while the receive queue is a concatenation of complete
\* well-formed packets, an iteration of loop() counts no error at all.
C36_NoErrorCounted ==
    [][(LoopStep /\ pc = "idle" /\ serial_rx # <<>> /\ ValidStream(serial_rx))
          => packet_errors' = packet_errors]_vars

\* ---- C37
\* C37: in every reachable state of the framed-stream firmware no more
\* frames were rendered than SET_ALL commands received, and the SET_ALL and
\* CONFIG commands received together are no more than the packets received;
\* a SET_ALL or CONFIG that is rejected is counted as received all the same.
C37_CounterOrdering ==
    /\ frames_rendered <= set_all_commands_received
    /\ set_all_commands_received + config_commands_received
           <= packets_received

\* one frame rendered, one SET_ALL refused for its size, then a CONFIG
\* refused for its length: both refusals are in the counters
C37_Witness ==
    /\ frames_rendered = 1
    /\ set_all_commands_received = 2
    /\ config_commands_received = 1
    /\ packets_received = 3
    /\ packet_errors = 1
    /\ uart_buffer = <<CMD_CONFIG, 1, 0>>
    /\ Said(RESP_ERROR, "CONFIG_TOO_SHORT")

\* ------------------------------- TxSpec: the outbound statistics buffer
\* loop() of the SPI slave firmware (part_003:919-944): update_stats_buffer()
\* writes the snapshot into spi_tx_buffer, spi_slave_transmit() hands the
\* buffer to the driver and returns after one transaction or after 100 ms
\* without one; a completed transaction is counted by the post-transaction
\* callback and its bytes go to process_command.  millis() is the clock of
\* `stats`; a SHOW and a rendered SET_ALL store the measured duration of
\* FastLED.show() in last_show_duration (part_003:675-678, 738-741).
StatsLen == 4 + (9 * 4)

\* a writer that stores the most significant byte first
write_u32_le_big(buffer, offset, value) ==
    [buffer EXCEPT ![offset + 0] = (value \div 16777216) % 256,
                   ![offset + 1] = (value \div 65536) % 256,
                   ![offset + 2] = (value \div 256) % 256,
                   ![offset + 3] = value % 256]

write_u32_le(buffer, offset, value) ==
    [buffer EXCEPT ![offset + 0] = value % 256,
                   ![offset + 1] = (value \div 256) % 256,
                   ![offset + 2] = (value \div 65536) % 256,
                   ![offset + 3] = (value \div 16777216) % 256]

\* 'L' 'G' 'S' '1'
StatsMagic == <<76, 71, 83, 49>>

update_stats_buffer(st, now) ==
    LET b0 == [st.spi_tx_buffer EXCEPT ![0] = StatsMagic[1],
                                       ![1] = StatsMagic[2],
                                       ![2] = StatsMagic[3],
                                       ![3] = StatsMagic[4]]
        b1 == write_u32_le(b0, 4, now)
        b2 == write_u32_le(b1, 8, st.frames_rendered)
        b3 == write_u32_le(b2, 12, st.set_all_commands_received)
        b4 == write_u32_le(b3, 16, st.packets_received)
        b5 == write_u32_le(b4, 20, st.zero_payload_packets)
        b6 == write_u32_le(b5, 24, st.last_show_duration)
        b7 == write_u32_le(b6, 28, st.total_bytes_received)
        b8 == write_u32_le(b7, 32, st.active_strips)
    IN  write_u32_le(b8, 36, st.leds_per_strip)

\* micros() - start_us around FastLED.show(), in microseconds: a value that
\* fills all four bytes
ShowDurations == {16909060}

\* the case taken called FastLED.show() between two micros() readings
TimedShow(st, data) ==
    \/ IsCommand(data, CMD_SHOW)
    \/ IsCommand(data, CMD_SET_ALL) /\ Len(data) >= 1 + st.total_leds * 3

\* one iteration of loop() in which the master completes a transaction
TxTransaction(data) ==
    \E dur \in ShowDurations :
        /\ spi.packets_received < MaxPackets
        /\ spi_rx_buffer' = data
        /\ LET queued == [spi EXCEPT !.spi_tx_buffer =
                             update_stats_buffer(spi, stats.now_ms)]
               done == SpiProcessCommand(
                           [queued EXCEPT !.packets_received = @ + 1,
                                          !.show_calls = 0],
                           data)
           IN  spi' = IF TimedShow(queued, data)
                      THEN [done EXCEPT !.last_show_duration = dur]
                      ELSE done
        /\ UNCHANGED <<dvars, fvars, mvars, ovars>>

\* one iteration of loop() in which spi_slave_transmit() times out
TxIdle ==
    /\ spi' = [spi EXCEPT !.spi_tx_buffer =
                   update_stats_buffer(spi, stats.now_ms)]
    /\ UNCHANGED <<dvars, fvars, mvars, spi_rx_buffer, ovars>>

TxCommand ==
    \E data \in {Frame(CMD_SET_ALL, 1 + spi.total_leds * 3, 10),
                 <<CMD_SET_ALL, 1>>,
                 <<CMD_CONFIG, 1, 0, 1>>,
                 <<CMD_SHOW>>,
                 <<9, 0>>} :
        TxTransaction(data)

TxNext ==
    \/ TxCommand
    \/ TxIdle
    \/ StatsTick

TxSpec == Init /\ [][TxNext]_vars

\* ---- C40
\* the 32-bit value a host decodes from four bytes at `offset`, least
\* significant byte first
U32At(buffer, offset) ==
    buffer[offset] + 256 * buffer[offset + 1] + 65536 * buffer[offset + 2]
        + 16777216 * buffer[offset + 3]
\* the nine values of the snapshot in buffer order
StatsFields(buffer) == [k \in 1 .. 9 |-> U32At(buffer, 4 * k)]
\* the same nine values in the globals st at time now
StatsValues(st, now) ==
    <<now, st.frames_rendered, st.set_all_commands_received,
      st.packets_received, st.zero_payload_packets, st.last_show_duration,
      st.total_bytes_received, st.active_strips, st.leds_per_strip>>
\* an iteration of loop() of the SPI firmware (time passing is not one)
TxQueued == spi' # spi

\* C40: in every iteration of loop() the first 40 bytes of spi_tx_buffer
\* handed to the driver are 'LGS1' and the little-endian 32-bit values of
\* uptime, frames_rendered, set_all_commands_received, packets_received,
\* zero_payload_packets, last_show_duration, total_bytes_received,
\* active_strips and leds_per_strip as they were when the iteration began:
\* the host reads in a transaction the state after all earlier
\* transactions, without the effect of the command it is sending.
C40_StatsSnapshot ==
    [][TxQueued =>
          /\ [i \in 1 .. 4 |-> spi'.spi_tx_buffer[i - 1]] = StatsMagic
          /\ StatsFields(spi'.spi_tx_buffer) = StatsValues(spi, stats.now_ms)
          /\ DOMAIN spi'.spi_tx_buffer = 0 .. (StatsLen - 1)]_vars

\* the third transaction was a rendered frame: the host read the counters
\* of the two transactions before it (a layout change, a SHOW with its
\* duration), while the globals already count the frame
C40_Witness ==
    /\ spi.packets_received = 3
    /\ spi.frames_rendered = 1
    /\ spi.leds_per_strip = 1
    /\ IsCommand(spi_rx_buffer, CMD_SET_ALL)
    /\ StatsFields(spi.spi_tx_buffer) =
           <<stats.now_ms, 0, 0, 2, 0, 16909060, 5, 1, 1>>
    /\ spi.spi_tx_buffer[24] = 4
    /\ spi.spi_tx_buffer[27] = 1
    /\ spi.total_bytes_received = 9
    /\ stats.now_ms = 5

\* ---- C39
\* the frame that declares no payload
EmptyPacket == <<PACKET_START, 0, 0, PACKET_END>>

\* C39: when the receive queue starts with [0xAA][0x00][0x00][0x55], the
\* iteration of loop() that reads it passes the length and end-marker checks
\* and calls the dispatcher with length 0, which returns at once: no counter
\* (packets_received, total_bytes_received, packet_errors and the others),
\* no Configuration field, no pixel and no response changes; exactly these
\* four bytes are taken off the queue and loop() is back at its start, so
\* that whatever follows is read as the next packet.
C39_ZeroLength ==
    [][(LoopStep /\ pc = "idle" /\ Len(serial_rx) >= 4
           /\ SubSeq(serial_rx, 1, 4) = EmptyPacket)
          => /\ framing' = "dispatched"
             /\ payload_len' = 0
             /\ UNCHANGED <<packets_received, total_bytes_received,
                            packet_errors, cfg, leds>>
             /\ UNCHANGED dvars
             /\ serial_rx' = SubSeq(serial_rx, 5, Len(serial_rx))
             /\ pc' = "idle"]_vars

\* the empty frame has been read with nothing counted, and the packet sent
\* behind it is at the head of the queue
C39_Witness ==
    /\ framing = "dispatched"
    /\ payload_len = 0
    /\ header = <<PACKET_START, 0, 0>>
    /\ pc = "idle"
    /\ sent = MaxStream
    /\ serial_rx = Packet(<<CMD_SHOW>>)
    /\ packets_received = 0
    /\ total_bytes_received = 0
    /\ packet_errors = 0

\* ---- C38
\* the first CMD_BUFFER_SIZE bytes of s
Capped(s) ==
    SubSeq(s, 1, IF Len(s) < CMD_BUFFER_SIZE THEN Len(s) ELSE CMD_BUFFER_SIZE)

\* C38 as claimed: under every interleaving of the master and loop(),
\* whenever processCommand runs, cmd_buffer[0 .. cmd_index-1] holds exactly
\* the bytes the master clocked in the transaction that has just ended (the
\* first CMD_BUFFER_SIZE of them), in order: none is missing and none comes
\* from another transaction.
C38_BufferComplete ==
    [][(pico'.calls = pico.calls + 1) =>
          pico'.cmd_buffer = Capped(bus.clocked)]_vars

====
